---- MODULE Spec2Model ----
(***************************************************************************)
(* Model of eDisGo's grid constraint checks                                *)
(* (edisgo/flex_opt/check_tech_constraints.py) and of its PowerModels      *)
(* export (edisgo/io/powermodels_io.py).                                   *)
(*                                                                         *)
(* Quantities are exact integers: apparent power in kVA (0.001 MVA), load   *)
(* factors in percent (1.0 = Unity), voltages in 0.001 p.u.  Ratings are    *)
(* even, so that rating x load factor is a whole number.  Quotients are     *)
(* exact fractions in lowest terms.                                         *)
(* Names of lines and transformers are natural numbers whose order is the  *)
(* lexical order of the names.  Time steps are 1..NT in index order.       *)
(***************************************************************************)
EXTENDS Integers, Sequences, FiniteSets, TLC

\* number of time steps of the time index
NT == 2

\* load factor 1.0, in percent
Unity == 100

Timesteps == 1..NT

Cases == {"feed-in_case", "load_case"}

VARIABLES
    rings,                          \* topology.rings: set of rings, each a set of buses
    s_nom,                          \* s_nom column of lines_df / transformers_df
    timesteps_load_feedin_case,     \* timeseries.timesteps_load_feedin_case
    config,                         \* config["grid_expansion_load_factors"]
    s_res,                          \* results.s_res (i_res has its index and its line columns)
    pfa_slack,                      \* results.pfa_slack: p and q at the slack
    v_res,                          \* results.v_res: voltage per time step and bus
    v_config,                       \* config["grid_expansion_allowed_voltage_deviations"]
    lv_grids,                       \* topology.lv_grids, in iteration order
    psa_net,                        \* the pypsa network the exporter converts
    ret                             \* outcome of the last call

vars == <<rings, s_nom, timesteps_load_feedin_case, config, s_res, pfa_slack,
          v_res, v_config, lv_grids, psa_net, ret>>

inputs == <<rings, s_nom, timesteps_load_feedin_case, config, s_res, pfa_slack,
            v_res, v_config, lv_grids, psa_net>>

----------------------------------------------------------------------------
(* Generic helpers *)

Abs(a) == IF a < 0 THEN -a ELSE a

RECURSIVE GCD(_, _)
GCD(a, b) == IF b = 0 THEN a ELSE GCD(b, a % b)

\* the float a / b (b > 0) as an exact fraction in lowest terms
Div(a, b) == LET g == GCD(Abs(a), b) IN [num |-> a \div g, den |-> b \div g]

RatLess(x, y) == x.num * y.den < y.num * x.den

Range(f) == {f[i] : i \in DOMAIN f}

\* Series.max(): largest value of a non-empty set of fractions
RatMax(S) == CHOOSE x \in S : \A y \in S : ~RatLess(x, y)

\* Series.min()
RatMin(S) == CHOOSE x \in S : \A y \in S : ~RatLess(y, x)

RECURSIVE SumSeq(_)
SumSeq(q) == IF q = <<>> THEN 0 ELSE Head(q) + SumSeq(Tail(q))

\* floor of the square root of n, searched in lo..hi
RECURSIVE ISqrt(_, _, _)
ISqrt(n, lo, hi) ==
    IF lo >= hi THEN lo
    ELSE LET mid == (lo + hi + 1) \div 2
         IN IF mid * mid <= n THEN ISqrt(n, mid, hi) ELSE ISqrt(n, lo, mid - 1)

HypotAsSum(p, q) == Abs(p) + Abs(q)

\* np.hypot on inputs whose hypotenuse is a whole number
Hypot(p, q) == ISqrt(p * p + q * q, 0, Abs(p) + Abs(q))

\* index sorted ascending by label, as pandas' safe_sort does
RECURSIVE SortedSeq(_)
SortedSeq(S) ==
    IF S = {} THEN <<>>
    ELSE LET m == CHOOSE x \in S : \A y \in S : x <= y
         IN <<m>> \o SortedSeq(S \ {m})

----------------------------------------------------------------------------
(* Topology: three lines on the feeder A - B - C - D; lines 1 and 2 are in  *)
(* the MV grid, line 3 is in an LV grid.  Table order differs from name     *)
(* order.  A, B, C are the buses of the MV grid; LV grid 1 has the buses D  *)
(* (its bus bar) and E and is fed from C, LV grid 2 has the bus F and is    *)
(* fed from B.                                                              *)

Buses == {"A", "B", "C", "D", "E", "F"}

lines_df ==
    << [name |-> 2, bus0 |-> "B", bus1 |-> "C"],
       [name |-> 1, bus0 |-> "A", bus1 |-> "B"],
       [name |-> 3, bus0 |-> "C", bus1 |-> "D"] >>

mv_grid_lines_df == SelectSeq(lines_df, LAMBDA r : r.name \in {1, 2})

LineNames == {lines_df[i].name : i \in DOMAIN lines_df}

LineRow(l) == CHOOSE r \in Range(lines_df) : r.name = l


\* The MV grid is grid 0, the LV grids are 1 and 2.  MV/LV transformers 4, 5
\* (LV grid 1) and 6 (LV grid 2); HV/MV transformers 7, 8.
mv_grid == 0

\* topology.lv_grids of the network with both LV grids
LVGrids == <<1, 2>>

transformers_df(grid) == IF grid = 1 THEN <<4, 5>> ELSE <<6>>

transformers_hvmv_df == <<7, 8>>

TrafoNames == {4, 5, 6}

\* columns of results.s_res and results.i_res
Components == LineNames \cup TrafoNames

----------------------------------------------------------------------------
(* Allowed line loading *)

load_factor(voltage_level, case, kind) == config[<<voltage_level, case, kind>>]

\* index of the lines of a voltage level, in table order
lines_of_voltage_level(voltage_level) ==
    LET mv == {mv_grid_lines_df[i].name : i \in DOMAIN mv_grid_lines_df}
        df == IF voltage_level = "lv"
              THEN SelectSeq(lines_df, LAMBDA r : r.name \notin mv)
              ELSE mv_grid_lines_df
    IN [i \in DOMAIN df |-> df[i].name]

buses_in_cycles == UNION rings

in_cycle_any(l) ==
    LineRow(l).bus0 \in buses_in_cycles \/ LineRow(l).bus1 \in buses_in_cycles

\* lines_df[["bus0", "bus1"]].isin(buses_in_cycles).all(axis=1)
in_cycle(l) ==
    LineRow(l).bus0 \in buses_in_cycles /\ LineRow(l).bus1 \in buses_in_cycles

allowed_load_per_case_other(voltage_level, case) ==
    LET lines == Range(lines_of_voltage_level(voltage_level))
        lf == load_factor(voltage_level, CHOOSE c \in Cases : c # case, "line")
    IN IF lf # Unity
       THEN [l \in lines |->
                IF in_cycle(l) THEN (s_nom[l] * lf) \div Unity ELSE s_nom[l]]
       ELSE [l \in lines |-> (s_nom[l] * lf) \div Unity]

\* allowed_load_per_case[case]: a Series labelled by line name
allowed_load_per_case(voltage_level, case) ==
    LET lines == Range(lines_of_voltage_level(voltage_level))
        lf == load_factor(voltage_level, case, "line")
    IN IF lf # Unity
       THEN [l \in lines |->
                IF in_cycle(l) THEN (s_nom[l] * lf) \div Unity ELSE s_nom[l]]
       ELSE [l \in lines |-> (s_nom[l] * lf) \div Unity]

\* one row per time step of the power flow results, picked by the step's case
lines_allowed_load_voltage_level(voltage_level) ==
    [t \in DOMAIN s_res |->
        allowed_load_per_case(voltage_level, timesteps_load_feedin_case[t])]

\* pd.concat([allowed_load_lv, allowed_load_mv], axis=1).loc[:, lines]
lines_allowed_load(lines) ==
    LET lv == lines_allowed_load_voltage_level("lv")
        mv == lines_allowed_load_voltage_level("mv")
    IN [t \in DOMAIN s_res |->
          [l \in Range(lines) |->
              IF l \in DOMAIN lv[t] THEN lv[t][l] ELSE mv[t][l]]]

lines_relative_load_of_first_step(lines) ==
    LET allowed_loading == lines_allowed_load(lines)
    IN [t \in DOMAIN s_res |->
          [l \in Range(lines) |-> Div(s_res[1][l], allowed_loading[1][l])]]

\* loading / allowed_loading
lines_relative_load(lines) ==
    LET allowed_loading == lines_allowed_load(lines)
    IN [t \in DOMAIN s_res |->
          [l \in Range(lines) |-> Div(s_res[t][l], allowed_loading[t][l])]]

----------------------------------------------------------------------------
(* Line over-loading *)

reverse_sort_index(crit) ==
    LET index == SortedSeq(crit)
    IN [i \in DOMAIN index |-> index[Len(index) + 1 - i]]

\* pd.concat(..., axis=1, sort=True): the rows come out in the order of the labels
sort_index(crit) == SortedSeq(crit)

One == [num |-> 1, den |-> 1]

\* DataFrame.idxmax(): first index label at which the column is largest
idxmax(col) ==
    LET m == RatMax(Range(col))
    IN CHOOSE t \in DOMAIN col :
          /\ col[t] = m
          /\ \A u \in DOMAIN col : u < t => col[u] # m

exceeds_or_equals_one(x) == ~RatLess(x, One)

\* relative_i_res > 1
exceeds_one(x) == RatLess(One, x)

line_overload(voltage_level) ==
    LET lines == lines_of_voltage_level(voltage_level)
        relative_i_res == lines_relative_load(lines)
        over(l) == {x \in {relative_i_res[t][l] : t \in DOMAIN s_res} : exceeds_one(x)}
        crit == {l \in Range(lines) : over(l) # {}}
        index == sort_index(crit)
    IN [i \in DOMAIN index |->
          [name |-> index[i],
           max_rel_overload |-> RatMax(over(index[i])),
           time_index |-> idxmax([t \in DOMAIN s_res |-> relative_i_res[t][index[i]]]),
           voltage_level |-> voltage_level]]

NoCall == [op |-> "none", arg |-> "none", err |-> "none", val |-> <<>>]

\* mv_line_overload / lv_line_overload
LineOverload(voltage_level) ==
    /\ ret' = IF s_res = <<>>
              THEN [op |-> "_line_overload", arg |-> voltage_level,
                    err |-> "NoResultsAvailable", val |-> <<>>]
              ELSE [op |-> "_line_overload", arg |-> voltage_level,
                    err |-> "none", val |-> line_overload(voltage_level)]
    /\ UNCHANGED inputs

mv_line_overload == LineOverload("mv")

lv_line_overload == LineOverload("lv")

\* _lines_allowed_load_voltage_level called for one voltage level
LinesAllowedLoad ==
    \E voltage_level \in {"mv", "lv"} :
        /\ ret' = [op |-> "_lines_allowed_load_voltage_level", arg |-> voltage_level,
                   err |-> "none", val |-> lines_allowed_load_voltage_level(voltage_level)]
        /\ UNCHANGED inputs

----------------------------------------------------------------------------
(* Station loading *)

station_name(grid) == grid

\* lines and transformers the power flow results hold
s_res_columns == IF s_res = <<>> THEN {} ELSE DOMAIN s_res[1]

\* lines the power flow results hold
i_res_columns == s_res_columns \cap LineNames

\* the exception _station_load raises, or "none"
station_load_error(grid) ==
    IF grid \in Range(lv_grids)
    THEN IF Range(transformers_df(grid)) \subseteq s_res_columns
         THEN "none" ELSE "KeyError"
    ELSE IF grid = mv_grid
    THEN IF \E i \in DOMAIN mv_grid_lines_df : mv_grid_lines_df[i].name \in i_res_columns
         THEN "none" ELSE "PrerequisiteMissing"
    ELSE "InvalidArgument"

\* loading of the grid's station per time step of the results
station_load(grid) ==
    IF grid \in Range(lv_grids)
    THEN [t \in DOMAIN s_res |->
            SumSeq([i \in DOMAIN transformers_df(grid) |->
                       s_res[t][transformers_df(grid)[i]]])]
    ELSE [t \in DOMAIN pfa_slack |-> Hypot(pfa_slack[t].p, pfa_slack[t].q)]

station_voltage_level(grid) == IF grid \in Range(lv_grids) THEN "lv" ELSE "mv"

station_transformers(grid) ==
    IF grid \in Range(lv_grids) THEN transformers_df(grid) ELSE transformers_hvmv_df

\* the Series load_factor of _station_allowed_load and _station_overload
transformer_load_factor(grid) ==
    [t \in DOMAIN timesteps_load_feedin_case |->
        load_factor(station_voltage_level(grid), timesteps_load_feedin_case[t],
                    "transformer")]

station_allowed_load_first(grid) ==
    LET trafos == station_transformers(grid)
        s_station == s_nom[trafos[1]]
        lf == transformer_load_factor(grid)
    IN [t \in DOMAIN lf |-> (s_station * lf[t]) \div Unity]

\* s_station * load_factor, per time step of timesteps_load_feedin_case
station_allowed_load(grid) ==
    LET trafos == station_transformers(grid)
        s_station == SumSeq([i \in DOMAIN trafos |-> s_nom[trafos[i]]])
        lf == transformer_load_factor(grid)
    IN [t \in DOMAIN lf |-> (s_station * lf[t]) \div Unity]

\* first index label at which a Series of fractions is smallest
idxmin(col) ==
    LET m == RatMin(Range(col))
    IN CHOOSE t \in DOMAIN col :
          /\ col[t] = m
          /\ \A u \in DOMAIN col : u < t => col[u] # m

RatAbs(x) == [num |-> Abs(x.num), den |-> x.den]

negative_or_zero(x) == x <= 0

\* s_res < 0
negative(x) == x < 0

\* the smallest residual, divided by the load factor of its time step
greatest_missing_of_min_residual(s_res_neg, lf) ==
    LET t_min == idxmin([t \in DOMAIN s_res_neg |-> Div(s_res_neg[t], 1)])
    IN [s_missing |-> RatAbs(Div(s_res_neg[t_min] * Unity, lf[t_min])),
        time_index |-> t_min]

\* s_missing = (s_res / load_factor).dropna(); abs(s_missing.min()), s_missing.idxmin()
greatest_missing(s_res_neg, lf) ==
    LET s_missing == [t \in DOMAIN s_res_neg |-> Div(s_res_neg[t] * Unity, lf[t])]
    IN [s_missing |-> RatAbs(RatMin(Range(s_missing))),
        time_index |-> idxmin(s_missing)]

station_overload(grid) ==
    LET s_station_pfa == station_load(grid)
        s_station_allowed == station_allowed_load(grid)
        common == DOMAIN s_station_pfa \cap DOMAIN s_station_allowed
        residual == [t \in common |-> s_station_allowed[t] - s_station_pfa[t]]
        neg == {t \in common : negative(residual[t])}
        worst == greatest_missing([t \in neg |-> residual[t]],
                                  transformer_load_factor(grid))
    IN IF neg # {}
       THEN << [name |-> station_name(grid),
                s_missing |-> worst.s_missing,
                time_index |-> worst.time_index,
                grid |-> grid] >>
       ELSE <<>>

\* pd.concat of the LV grids' reports, in the order of topology.lv_grids
RECURSIVE concat_station_overload(_)
concat_station_overload(grids) ==
    IF grids = <<>> THEN <<>>
    ELSE station_overload(Head(grids)) \o concat_station_overload(Tail(grids))

hv_mv_station_overload ==
    /\ ret' = IF station_load_error(mv_grid) # "none"
              THEN [op |-> "hv_mv_station_overload", arg |-> mv_grid,
                    err |-> station_load_error(mv_grid), val |-> <<>>]
              ELSE [op |-> "hv_mv_station_overload", arg |-> mv_grid,
                    err |-> "none", val |-> station_overload(mv_grid)]
    /\ UNCHANGED inputs

mv_lv_station_overload ==
    /\ ret' = IF \E i \in DOMAIN lv_grids : station_load_error(lv_grids[i]) # "none"
              THEN [op |-> "mv_lv_station_overload", arg |-> "lv",
                    err |-> "KeyError", val |-> <<>>]
              ELSE [op |-> "mv_lv_station_overload", arg |-> "lv",
                    err |-> "none", val |-> concat_station_overload(lv_grids)]
    /\ UNCHANGED inputs

\* _station_allowed_load called for one grid
StationAllowedLoad ==
    \E grid \in {mv_grid} \cup Range(lv_grids) :
        /\ ret' = [op |-> "_station_allowed_load", arg |-> grid,
                   err |-> "none", val |-> station_allowed_load(grid)]
        /\ UNCHANGED inputs

----------------------------------------------------------------------------
(* Relative loading *)

\* lines_relative_load called with lines=None or with a list of lines
LinesRelativeLoad ==
    \E none \in BOOLEAN :
    \E given \in {<<l>> : l \in LineNames} \cup {<<2, 1>>, <<1, 3>>} :
        LET lines == IF none THEN SortedSeq(i_res_columns) ELSE given
        IN /\ ret' = IF Range(lines) \subseteq i_res_columns
                     THEN [op |-> "lines_relative_load", arg |-> lines,
                           err |-> "none", val |-> lines_relative_load(lines)]
                     ELSE [op |-> "lines_relative_load", arg |-> lines,
                           err |-> "KeyError", val |-> <<>>]
           /\ UNCHANGED inputs

is_grid(grid) == grid = mv_grid \/ grid \in Range(lv_grids)

\* pd.concat of _station_allowed_load over the grids, axis=1
stations_allowed_load(grids) ==
    [t \in DOMAIN timesteps_load_feedin_case |->
        [g \in Range(grids) |-> station_allowed_load(g)[t]]]

stations_read_until_first_failure(grids) ==
    SubSeq(grids, 1,
           IF \E i \in DOMAIN grids : station_load_error(grids[i]) # "none"
           THEN (CHOOSE i \in DOMAIN grids :
                    /\ station_load_error(grids[i]) # "none"
                    /\ \A j \in 1..(i - 1) : station_load_error(grids[j]) = "none") - 1
           ELSE Len(grids))

\* the grids whose _station_load did not raise: try ... except Exception: pass
stations_read(grids) == SelectSeq(grids, LAMBDA g : station_load_error(g) = "none")

\* loading / allowed_loading.loc[:, loading.columns]
stations_relative_load(grids) ==
    LET allowed_loading == stations_allowed_load(grids)
        columns == stations_read(grids)
    IN [columns |-> columns,
        rows |-> [t \in DOMAIN timesteps_load_feedin_case |->
                    [g \in Range(columns) |->
                        Div(station_load(g)[t], allowed_loading[t][g])]]]

\* stations_relative_load called with grids=None or with a list of grids; 9 is
\* no grid of the network
StationsRelativeLoad ==
    \E none \in BOOLEAN :
    \E given \in {<<mv_grid>>, <<1>>, <<2, 1>>, <<1, mv_grid, 2>>, <<1, 9>>} :
        LET grids == IF none THEN lv_grids \o <<mv_grid>> ELSE given
        IN /\ ret' = IF \E i \in DOMAIN grids : ~is_grid(grids[i])
                     THEN [op |-> "stations_relative_load", arg |-> grids,
                           err |-> "InvalidArgument", val |-> <<>>]
                     ELSE [op |-> "stations_relative_load", arg |-> grids,
                           err |-> "none", val |-> stations_relative_load(grids)]
           /\ UNCHANGED inputs

----------------------------------------------------------------------------
(* Voltage limits *)

\* 1 p.u.
PerUnit == 1000

mv_grid_buses == <<"A", "B", "C">>

\* lv_grid.buses_df.index
lv_grid_buses(lv_grid) == IF lv_grid = 1 THEN <<"D", "E">> ELSE <<"F">>

\* lv_grid.station.index: the bus bar
lv_grid_station(lv_grid) == IF lv_grid = 1 THEN <<"D">> ELSE <<"F">>

\* a wrong variant: the bus bar
bus_station_secondary(lv_grid) == IF lv_grid = 1 THEN "D" ELSE "F"

\* lv_grid.transformers_df.iloc[0].bus0
bus_station_primary(lv_grid) == IF lv_grid = 1 THEN "C" ELSE "B"

\* the per-case limits picked per time step
limits_per_timestep(feedin_upper, feedin_lower, load_upper, load_lower) ==
    [upper |-> [t \in DOMAIN timesteps_load_feedin_case |->
                   IF timesteps_load_feedin_case[t] = "feed-in_case"
                   THEN feedin_upper[t] ELSE load_upper[t]],
     lower |-> [t \in DOMAIN timesteps_load_feedin_case |->
                   IF timesteps_load_feedin_case[t] = "feed-in_case"
                   THEN feedin_lower[t] ELSE load_lower[t]]]

\* the same value at every time step
constant_series(x) == [t \in DOMAIN timesteps_load_feedin_case |-> x]

\* a wrong variant: the control deviation is added in the load case
mv_allowed_voltage_limits_same_sign(voltage_levels) ==
    LET offset == v_config.hv_mv_trafo_offset
        control_deviation == v_config.hv_mv_trafo_control_deviation
    IN limits_per_timestep(
           constant_series(PerUnit + offset + control_deviation
               + v_config.max_v_deviation[<<voltage_levels, "feed-in_case">>]),
           constant_series(v_config.feedin_case_lower),
           constant_series(v_config.load_case_upper),
           constant_series(PerUnit + offset + control_deviation
               - v_config.max_v_deviation[<<voltage_levels, "load_case">>]))

\* a wrong variant: the limits follow the voltage at the station of the MV grid
mv_allowed_voltage_limits_from_station_voltage(voltage_levels) ==
    limits_per_timestep(
        [t \in DOMAIN v_res |-> v_res[t][mv_grid_buses[1]]
            + v_config.max_v_deviation[<<voltage_levels, "feed-in_case">>]],
        constant_series(v_config.feedin_case_lower),
        constant_series(v_config.load_case_upper),
        [t \in DOMAIN v_res |-> v_res[t][mv_grid_buses[1]]
            - v_config.max_v_deviation[<<voltage_levels, "load_case">>]])

mv_allowed_voltage_limits(voltage_levels) ==
    LET offset == v_config.hv_mv_trafo_offset
        control_deviation == v_config.hv_mv_trafo_control_deviation
    IN limits_per_timestep(
           constant_series(PerUnit + offset + control_deviation
               + v_config.max_v_deviation[<<voltage_levels, "feed-in_case">>]),
           constant_series(v_config.feedin_case_lower),
           constant_series(v_config.load_case_upper),
           constant_series(PerUnit + offset - control_deviation
               - v_config.max_v_deviation[<<voltage_levels, "load_case">>]))

lv_allowed_voltage_limits(lv_grid, mode) ==
    LET bus == IF mode = "stations" THEN bus_station_primary(lv_grid)
               ELSE lv_grid_station(lv_grid)[1]
        config_string == IF mode = "stations" THEN "mv_lv_station" ELSE "lv"
        voltage_base == [t \in DOMAIN v_res |-> v_res[t][bus]]
    IN limits_per_timestep(
           [t \in DOMAIN v_res |-> voltage_base[t]
               + v_config.max_v_deviation[<<config_string, "feed-in_case">>]],
           constant_series(v_config.feedin_case_lower),
           constant_series(v_config.load_case_upper),
           [t \in DOMAIN v_res |-> voltage_base[t]
               - v_config.max_v_deviation[<<config_string, "load_case">>]])

----------------------------------------------------------------------------
(* Voltage deviation *)

IntMax(S) == CHOOSE x \in S : \A y \in S : y <= x

\* df.max(axis=1) of one row
row_max(diff) == IntMax(Range(diff))

\* df.idxmax(axis=1) of one row: the first time step of the largest value
row_idxmax(diff) ==
    CHOOSE t \in DOMAIN diff :
        /\ diff[t] = row_max(diff)
        /\ \A u \in DOMAIN diff : u < t => diff[u] # row_max(diff)

\* the rows of a frame indexed by bus, one deviation per time step:
\* buses.T - v_dev_allowed_upper (sign 1), -buses.T + v_dev_allowed_lower (sign -1)
diff_rows(buses, sign, v_dev_allowed) ==
    [i \in DOMAIN buses |->
        [bus |-> buses[i],
         diff |-> [t \in DOMAIN v_res |-> sign * (v_res[t][buses[i]] - v_dev_allowed[t])]]]

at_or_above_upper(v, limit) == v >= limit

\* v_mag_pu_pfa.T > v_dev_allowed_upper_format
above_upper(v, limit) == v > limit

at_or_below_lower(v, limit) == v =< limit

\* v_mag_pu_pfa.T < v_dev_allowed_lower_format
below_lower(v, limit) == v < limit

keep_overvoltage_if_not_smaller(ov_max, uv_max) == ov_max >= uv_max

\* voltage_diff_ov.max(axis=1) > voltage_diff_uv.max(axis=1)
keep_overvoltage(ov_max, uv_max) == ov_max > uv_max

voltage_diff(buses, v_dev_allowed_upper, v_dev_allowed_lower) ==
    LET ov(b, t) == v_res[t][b] - v_dev_allowed_upper[t]
        uv(b, t) == v_dev_allowed_lower[t] - v_res[t][b]
        overvoltage == SelectSeq(buses, LAMBDA b :
                           \E t \in DOMAIN v_res :
                               above_upper(v_res[t][b], v_dev_allowed_upper[t]))
        undervoltage == SelectSeq(buses, LAMBDA b :
                            \E t \in DOMAIN v_res :
                                below_lower(v_res[t][b], v_dev_allowed_lower[t]))
        buses_both == SelectSeq(overvoltage, LAMBDA b : b \in Range(undervoltage))
        both_ov == SelectSeq(buses_both, LAMBDA b :
                       keep_overvoltage(IntMax({ov(b, t) : t \in DOMAIN v_res}),
                                        IntMax({uv(b, t) : t \in DOMAIN v_res})))
        both_uv == SelectSeq(buses_both, LAMBDA b : b \notin Range(both_ov))
        buses_ov == SelectSeq(overvoltage, LAMBDA b : b \notin Range(buses_both))
        buses_uv == SelectSeq(undervoltage, LAMBDA b : b \notin Range(buses_both))
    IN [uv |-> diff_rows(both_uv \o buses_uv, -1, v_dev_allowed_lower),
        ov |-> diff_rows(both_ov \o buses_ov, 1, v_dev_allowed_upper)]

append_crit_buses(df) ==
    [i \in DOMAIN df |->
        [bus |-> df[i].bus,
         v_diff_max |-> row_max(df[i].diff),
         time_index |-> row_idxmax(df[i].diff)]]

in_ascending_order(rows) ==
    \A i, j \in DOMAIN rows : i < j => rows[i].v_diff_max <= rows[j].v_diff_max

\* ascending=False
in_descending_order(rows) ==
    \A i, j \in DOMAIN rows : i < j => rows[i].v_diff_max >= rows[j].v_diff_max

\* sort_values(by=["v_diff_max"], ascending=False): the sort is not stable, rows
\* of equal v_diff_max may come out in any order
sort_values(rows) ==
    {[i \in DOMAIN rows |-> rows[p[i]]] :
        p \in {q \in [DOMAIN rows -> DOMAIN rows] :
                  /\ \A i, j \in DOMAIN rows : q[i] = q[j] => i = j
                  /\ in_descending_order([i \in DOMAIN rows |-> rows[q[i]]])}}

\* the reports _voltage_deviation may return
voltage_deviation(buses, v_limits_upper, v_limits_lower) ==
    LET d == voltage_diff(buses, v_limits_upper, v_limits_lower)
    IN sort_values(append_crit_buses(d.ov) \o append_crit_buses(d.uv))

\* crit_buses: the grids with a non-empty report
crit_buses_dicts(reports) ==
    LET crit == {g \in DOMAIN reports : \E r \in reports[g] : r # <<>>}
    IN {f \in [crit -> UNION {reports[g] : g \in crit}] :
           \A g \in crit : f[g] \in reports[g]}

\* the option values the message of the ValueError names:
\* "Specified mode {} is not a valid option." (_mv_allowed_voltage_limits),
\* "... Try 'mv_lv' or 'lv'." and "... Try 'stations' or None." (lv_voltage_deviation)
invalid_option_message(option) ==
    IF option = "voltage_levels (mv)" THEN {}
    ELSE IF option = "voltage_levels (lv)" THEN {"mv_lv", "lv"}
    ELSE {"stations", "None"}

mv_voltage_deviation ==
    \E voltage_levels \in {"mv_lv", "mv", "lv"} :
        /\ IF voltage_levels \notin {"mv_lv", "mv"}
           THEN ret' = [op |-> "mv_voltage_deviation", arg |-> <<voltage_levels>>,
                        err |-> "InvalidArgument", val |-> <<>>,
                        msg |-> invalid_option_message("voltage_levels (mv)")]
           ELSE LET v_limits == mv_allowed_voltage_limits(voltage_levels)
                    reports == [g \in {mv_grid} |->
                                   voltage_deviation(mv_grid_buses, v_limits.upper,
                                                     v_limits.lower)]
                IN \E crit_buses \in crit_buses_dicts(reports) :
                      ret' = [op |-> "mv_voltage_deviation", arg |-> <<voltage_levels>>,
                              err |-> "none", val |-> crit_buses]
        /\ UNCHANGED inputs

lv_voltage_deviation ==
    \E mode \in {"None", "stations", "feeder"} :
    \E voltage_levels \in {"mv_lv", "lv", "mv"} :
        /\ IF voltage_levels \notin {"mv_lv", "lv"}
           THEN ret' = [op |-> "lv_voltage_deviation", arg |-> <<mode, voltage_levels>>,
                        err |-> "InvalidArgument", val |-> <<>>,
                        msg |-> invalid_option_message("voltage_levels (lv)")]
           ELSE IF lv_grids # <<>> /\ mode \notin {"None", "stations"}
           THEN ret' = [op |-> "lv_voltage_deviation", arg |-> <<mode, voltage_levels>>,
                        err |-> "InvalidArgument", val |-> <<>>,
                        msg |-> invalid_option_message("mode")]
           ELSE LET v_limits(g) == IF voltage_levels = "lv"
                                   THEN lv_allowed_voltage_limits(g, mode)
                                   ELSE mv_allowed_voltage_limits("mv_lv")
                    buses(g) == IF mode = "stations" THEN lv_grid_station(g)
                                ELSE lv_grid_buses(g)
                    reports == [g \in Range(lv_grids) |->
                                   voltage_deviation(buses(g), v_limits(g).upper,
                                                     v_limits(g).lower)]
                IN \E crit_buses \in crit_buses_dicts(reports) :
                      ret' = [op |-> "lv_voltage_deviation",
                              arg |-> <<mode, voltage_levels>>,
                              err |-> "none", val |-> crit_buses]
        /\ UNCHANGED inputs

\* _mv_allowed_voltage_limits called on its own
MvAllowedVoltageLimits ==
    \E voltage_levels \in {"mv_lv", "mv", "lv"} :
        /\ ret' = IF voltage_levels \notin {"mv_lv", "mv"}
                  THEN [op |-> "mv_allowed_voltage_limits", arg |-> <<voltage_levels>>,
                        err |-> "InvalidArgument", val |-> <<>>]
                  ELSE [op |-> "mv_allowed_voltage_limits", arg |-> <<voltage_levels>>,
                        err |-> "none",
                        val |-> mv_allowed_voltage_limits(voltage_levels)]
        /\ UNCHANGED inputs

\* _lv_allowed_voltage_limits called on its own
LvAllowedVoltageLimits ==
    \E lv_grid \in Range(lv_grids) :
    \E mode \in {"None", "stations"} :
        /\ ret' = [op |-> "lv_allowed_voltage_limits", arg |-> <<lv_grid, mode>>,
                   err |-> "none", val |-> lv_allowed_voltage_limits(lv_grid, mode)]
        /\ UNCHANGED inputs

\* voltage_diff called as _voltage_deviation calls it: on the buses of a grid
\* with the limits of the grid
VoltageDiff ==
    \E grid \in {mv_grid} \cup Range(lv_grids) :
    \E differentiated \in BOOLEAN :
        LET buses == IF grid = mv_grid THEN mv_grid_buses ELSE lv_grid_buses(grid)
            v_limits == IF ~differentiated THEN mv_allowed_voltage_limits("mv_lv")
                        ELSE IF grid = mv_grid THEN mv_allowed_voltage_limits("mv")
                        ELSE lv_allowed_voltage_limits(grid, "None")
        IN /\ ret' = [op |-> "voltage_diff",
                      arg |-> [buses |-> buses,
                               v_dev_allowed_upper |-> v_limits.upper,
                               v_dev_allowed_lower |-> v_limits.lower],
                      err |-> "none",
                      val |-> voltage_diff(buses, v_limits.upper, v_limits.lower)]
           /\ UNCHANGED inputs

----------------------------------------------------------------------------
(* The 10 % criterion *)

outside_or_on_ten_percent_band(v) == v >= 1100 \/ v =< 900

\* v_mag_pu_pfa > 1.1, v_mag_pu_pfa < 0.9
outside_ten_percent_band(v) == v > 1100 \/ v < 900

\* a wrong variant: the deviation from 1 p.u. is computed in the results
check_ten_percent_voltage_deviation_in_place ==
    /\ ret' = IF \E t \in DOMAIN v_res : \E b \in DOMAIN v_res[t] :
                    outside_ten_percent_band(v_res[t][b])
              THEN [op |-> "check_ten_percent_voltage_deviation", arg |-> "none",
                    err |-> "FatalConstraintViolation", val |-> <<>>]
              ELSE [op |-> "check_ten_percent_voltage_deviation", arg |-> "none",
                    err |-> "none", val |-> <<>>]
    /\ v_res' = [t \in DOMAIN v_res |->
                    [b \in DOMAIN v_res[t] |-> Abs(v_res[t][b] - 1000)]]
    /\ UNCHANGED <<rings, s_nom, timesteps_load_feedin_case, config, s_res, pfa_slack,
                   v_config, lv_grids, psa_net>>

\* raises ValueError("Maximum allowed voltage deviation of 10% exceeded."),
\* returns None otherwise
check_ten_percent_voltage_deviation ==
    /\ ret' = IF \E t \in DOMAIN v_res : \E b \in DOMAIN v_res[t] :
                    outside_ten_percent_band(v_res[t][b])
              THEN [op |-> "check_ten_percent_voltage_deviation", arg |-> "none",
                    err |-> "FatalConstraintViolation", val |-> <<>>]
              ELSE [op |-> "check_ten_percent_voltage_deviation", arg |-> "none",
                    err |-> "none", val |-> <<>>]
    /\ UNCHANGED inputs

----------------------------------------------------------------------------
(* PowerModels export.  Component names are pairs <<prefix, number>>, e.g.  *)
(* <<"Load", 1>> for "Load_1"; a dict is a function from its keys.           *)

\* name.startswith(prefix)
startswith(name, prefix) == name[1] = prefix

\* str(n) of a positive integer: its decimal digits
RECURSIVE str(_)
str(n) == IF n < 10 THEN <<n>> ELSE str(n \div 10) \o <<n % 10>>

\* df.index of a table
index(df) == [i \in DOMAIN df |-> df[i].name]

\* d[key] = value on a dict
dict_set(d, key, value) ==
    [k \in DOMAIN d \cup {key} |-> IF k = key THEN value ELSE d[k]]

\* the table _mapping looks the name up in; <<>> stands for no table
mapping_df(kind) ==
    IF kind = "bus" THEN index(psa_net.buses)
    ELSE IF kind = "gen" THEN index(psa_net.generators)
    ELSE IF kind = "storage" THEN index(psa_net.storage_units)
    ELSE IF kind = "load"
    THEN SelectSeq(index(psa_net.loads), LAMBDA n : startswith(n, "Load"))
    ELSE IF kind = "emob"
    THEN SelectSeq(index(psa_net.loads), LAMBDA n : startswith(n, "Charging"))
    ELSE <<>>

\* the exception _mapping raises, or "none"
mapping_error(name, kind) ==
    IF kind \notin {"bus", "gen", "storage", "load", "emob"} THEN "UnboundLocalError"
    ELSE IF name \notin Range(mapping_df(kind)) THEN "IndexError"
    ELSE "none"

mapping_in_whole_table(name, kind) ==
    LET df == IF kind \in {"load", "emob"} THEN index(psa_net.loads) ELSE mapping_df(kind)
    IN CHOOSE i \in DOMAIN df : df[i] = name /\ \A j \in 1..(i - 1) : df[j] # name

\* df.reset_index()[df.index == name].index[0] + 1
mapping(name, kind) ==
    LET df == mapping_df(kind)
    IN CHOOSE i \in DOMAIN df : df[i] = name /\ \A j \in 1..(i - 1) : df[j] # name

\* fractions: sum, product and quotient (divisor positive)
Plus(p, q) == Div(p.num * q.den + q.num * p.den, p.den * q.den)

Times(p, q) == Div(p.num * q.num, p.den * q.den)

Quotient(p, q) == Div(p.num * q.den, p.den * q.num)

\* the sum of a sequence of fractions
RECURSIVE rat_sum(_)
rat_sum(fractions) ==
    IF fractions = <<>> THEN Div(0, 1)
    ELSE Plus(Head(fractions), rat_sum(Tail(fractions)))

\* the sum of a column of whole numbers
RECURSIVE int_sum(_)
int_sum(numbers) ==
    IF numbers = <<>> THEN 0 ELSE Head(numbers) + int_sum(Tail(numbers))

\* real and negated imaginary part of 1 / (r + jx)
conductance(row) == Quotient(row.r, Plus(Times(row.r, row.r), Times(row.x, row.x)))

susceptance(row) == Quotient(row.x, Plus(Times(row.r, row.r), Times(row.x, row.x)))

\* the equivalent impedance 1 / sum(1 / (r + jx)) of the parallel components
\* and the sum of their ratings
calculate_impedance_for_parallel_components(parallel_components) ==
    LET g == rat_sum([i \in DOMAIN parallel_components |->
                         conductance(parallel_components[i])])
        b == rat_sum([i \in DOMAIN parallel_components |->
                         susceptance(parallel_components[i])])
        y2 == Plus(Times(g, g), Times(b, b))
    IN [r |-> Quotient(g, y2),
        x |-> Quotient(b, y2),
        s_nom |-> int_sum([i \in DOMAIN parallel_components |->
                              parallel_components[i].s_nom])]

\* the group of the transformers between bus0 and bus1
groupby(psa_trafos, bus0, bus1) ==
    SelectSeq(psa_trafos, LAMBDA row : row.bus0 = bus0 /\ row.bus1 = bus1)

\* index[:-2] of a name, a string of characters
drop_last_two(name) == SubSeq(name, 1, Len(name) - 2)

\* the rows whose name did not occur further up: ~index.duplicated(keep="first")
drop_duplicated(df) ==
    LET first == SortedSeq({i \in DOMAIN df :
                               \A j \in 1..(i - 1) : df[j].name # df[i].name})
    IN [k \in DOMAIN first |-> df[first[k]]]

\* the names lose their last two characters, rows of equal name are dropped
\* but for the first, and each row left takes r, x and s_nom of its bus pair
aggregate_parallel_transformers(psa_trafos) ==
    LET renamed == [i \in DOMAIN psa_trafos |->
                       [psa_trafos[i] EXCEPT !.name = drop_last_two(@)]]
        kept == drop_duplicated(renamed)
    IN [k \in DOMAIN kept |->
          LET trafo == calculate_impedance_for_parallel_components(
                           groupby(psa_trafos, kept[k].bus0, kept[k].bus1))
          IN [kept[k] EXCEPT !.r = trafo.r, !.x = trafo.x, !.s_nom = trafo.s_nom]]

\* the aggregation of the transformer table of the snapshot, or (again) of
\* the table the last aggregation returned
AggregateParallelTransformers ==
    \E again \in BOOLEAN :
        /\ again => ret.op = "aggregate_parallel_transformers"
        /\ LET psa_trafos == IF again THEN ret.val ELSE psa_net.transformers
           IN /\ psa_trafos # <<>>
              /\ ret' = [op |-> "aggregate_parallel_transformers",
                         arg |-> psa_trafos, err |-> "none",
                         val |-> aggregate_parallel_transformers(psa_trafos)]
        /\ UNCHANGED inputs

bus_types == <<"PQ", "PV", "Slack", "None">>

\* bus_types.index(b_type) + 1
bus_type_int(b_type) == CHOOSE i \in DOMAIN bus_types : bus_types[i] = b_type

build_bus ==
    [key \in {str(bus_i) : bus_i \in DOMAIN psa_net.buses} |->
        LET bus_i == CHOOSE i \in DOMAIN psa_net.buses : str(i) = key
        IN [index |-> bus_i, bus_i |-> bus_i,
            bus_type |-> bus_type_int(psa_net.buses[bus_i].control)]]

\* bus of the generator "Generator_slack"
slack_gen ==
    LET i == CHOOSE i \in DOMAIN psa_net.generators :
                 psa_net.generators[i].name = <<"Generator_slack", 0>>
    IN psa_net.generators[i].bus

\* a wrong variant: the forced type is lost
force_slack_bus_overwritten(bus) == bus

\* pm["bus"] after _build_gen
force_slack_bus(bus) ==
    LET key == str(mapping(slack_gen, "bus"))
    IN dict_set(bus, key, [bus[key] EXCEPT !.bus_type = 3])

build_gen ==
    [key \in {str(gen_i) : gen_i \in DOMAIN psa_net.generators} |->
        LET gen_i == CHOOSE i \in DOMAIN psa_net.generators : str(i) = key
        IN [pg |-> psa_net.generators[gen_i].p_set,
            gen_bus |-> mapping(psa_net.generators[gen_i].bus, "bus"),
            index |-> gen_i]]

\* v.isna() and v.fillna(value); <<>> stands for NaN
isna(v) == v = <<>>

fillna(v, value) == IF isna(v) THEN value ELSE v[1]

\* pd.concat([lines, transformers]): the lines have no tap_ratio
concat(lines, transformers) ==
    [i \in DOMAIN lines |-> [name |-> lines[i].name, tap_ratio |-> <<>>]]
        \o [i \in DOMAIN transformers |->
               [name |-> transformers[i].name, tap_ratio |-> transformers[i].tap_ratio]]

\* the loop runs over as many rows of the concatenated table as it has lines
build_branch ==
    LET branches == concat(psa_net.lines,
                           aggregate_parallel_transformers(psa_net.transformers))
    IN [key \in {str(branch_i) : branch_i \in DOMAIN psa_net.lines} |->
          LET branch_i == CHOOSE i \in DOMAIN psa_net.lines : str(i) = key
          IN [name |-> branches[branch_i].name,
              f_bus |-> mapping(psa_net.lines[branch_i].bus0, "bus"),
              t_bus |-> mapping(psa_net.lines[branch_i].bus1, "bus"),
              transformer |-> ~isna(branches[branch_i].tap_ratio),
              tap |-> fillna(branches[branch_i].tap_ratio, 1),
              index |-> branch_i]]

build_storage ==
    [key \in {str(stor_i) : stor_i \in DOMAIN psa_net.storage_units} |->
        LET stor_i == CHOOSE i \in DOMAIN psa_net.storage_units : str(i) = key
        IN [ps |-> psa_net.storage_units[stor_i].p_set,
            storage_bus |-> mapping(psa_net.storage_units[stor_i].bus, "bus"),
            index |-> stor_i]]

\* df.drop(names)
drop(df, names) == SelectSeq(df, LAMBDA row : row.name \notin Range(names))

\* df.loc[names]
loc(df, names) ==
    [i \in DOMAIN names |-> CHOOSE row \in Range(df) : row.name = names[i]]

build_load_keeping_positions(flexible_cps, flexible_hps) ==
    LET kept == {i \in DOMAIN psa_net.loads :
                    psa_net.loads[i].name \notin Range(flexible_cps) \cup Range(flexible_hps)}
    IN [key \in {str(load_i) : load_i \in kept} |->
          LET load_i == CHOOSE i \in kept : str(i) = key
          IN [pd |-> psa_net.loads[load_i].p_set,
              load_bus |-> mapping(psa_net.loads[load_i].bus, "bus"),
              status |-> TRUE,
              index |-> load_i]]

build_load(flexible_cps, flexible_hps) ==
    LET loads_df == drop(drop(psa_net.loads, flexible_cps), flexible_hps)
    IN [key \in {str(load_i) : load_i \in DOMAIN loads_df} |->
          LET load_i == CHOOSE i \in DOMAIN loads_df : str(i) = key
          IN [pd |-> loads_df[load_i].p_set,
              load_bus |-> mapping(loads_df[load_i].bus, "bus"),
              status |-> TRUE,
              index |-> load_i]]

build_electromobility(flexible_cps) ==
    LET emob_df == loc(psa_net.loads, flexible_cps)
    IN [key \in {str(cp_i) : cp_i \in DOMAIN emob_df} |->
          LET cp_i == CHOOSE i \in DOMAIN emob_df : str(i) = key
          IN [pd |-> emob_df[cp_i].p_set,
              cp_bus |-> mapping(emob_df[cp_i].bus, "bus"),
              index |-> cp_i]]

build_heatpumps(flexible_hps) ==
    LET heat_df == loc(psa_net.loads, flexible_hps)
    IN [key \in {str(hp_i) : hp_i \in DOMAIN heat_df} |->
          LET hp_i == CHOOSE i \in DOMAIN heat_df : str(i) = key
          IN [pd |-> heat_df[hp_i].p_set,
              hp_bus |-> mapping(heat_df[hp_i].bus, "bus"),
              index |-> hp_i]]

\* the components whose series _build_component_timeseries loops over
timeseries_columns(kind, flexible_cps, flexible_hps) ==
    IF kind = "gen" THEN index(psa_net.generators)
    ELSE IF kind = "load"
    THEN SelectSeq(index(psa_net.loads), LAMBDA n : startswith(n, "Load"))
    ELSE IF kind = "storage" THEN index(psa_net.storage_units)
    ELSE IF kind = "emob" THEN flexible_cps
    ELSE flexible_hps

\* the record of one component: its series from the snapshot, the flexibility
\* bands for a charging point
timeseries_record(kind, comp) ==
    IF kind = "gen" THEN [pg |-> psa_net.p_set_t[comp]]
    ELSE IF kind = "load" THEN [pd |-> psa_net.p_set_t[comp]]
    ELSE IF kind = "storage" THEN [ps |-> psa_net.p_set_t[comp]]
    ELSE [p_max |-> psa_net.flex_bands[comp]]

\* the exception _build_component_timeseries raises, or "none"
component_timeseries_error(kind, flexible_cps, flexible_hps) ==
    LET columns == timeseries_columns(kind, flexible_cps, flexible_hps)
        failing == {i \in DOMAIN columns : mapping_error(columns[i], kind) # "none"}
    IN IF failing # {}
       THEN mapping_error(columns[CHOOSE i \in failing : \A j \in failing : i <= j], kind)
       ELSE IF kind = "emob" /\ Len(flexible_cps) = 0 THEN "UnboundLocalError"
       ELSE "none"

\* pm_comp after the loop over the first n columns
RECURSIVE pm_comp(_, _, _)
pm_comp(kind, columns, n) ==
    IF n = 0 THEN <<>>
    ELSE IF kind = "heatpumps" THEN pm_comp(kind, columns, n - 1)
    ELSE dict_set(pm_comp(kind, columns, n - 1),
                  str(mapping(columns[n], kind)),
                  timeseries_record(kind, columns[n]))

build_component_timeseries(kind, flexible_cps, flexible_hps) ==
    LET columns == timeseries_columns(kind, flexible_cps, flexible_hps)
    IN pm_comp(kind, columns, Len(columns))

build_timeseries(flexible_cps, flexible_hps) ==
    [gen |-> build_component_timeseries("gen", flexible_cps, flexible_hps),
     load |-> build_component_timeseries("load", flexible_cps, flexible_hps),
     storage |-> build_component_timeseries("storage", flexible_cps, flexible_hps),
     electromobility |-> build_component_timeseries("emob", flexible_cps, flexible_hps),
     heatpumps |-> build_component_timeseries("heatpumps", flexible_cps, flexible_hps),
     num_steps |-> psa_net.snapshots]

\* the first exception of the export, or "none"; has_cop: the loads table of
\* the snapshot has the columns cop and p_max
to_powermodels_error(flexible_cps, flexible_hps, has_cop) ==
    IF Len(flexible_hps) # 0 /\ ~has_cop THEN "AttributeError"
    ELSE IF component_timeseries_error("emob", flexible_cps, flexible_hps) # "none"
    THEN component_timeseries_error("emob", flexible_cps, flexible_hps)
    ELSE component_timeseries_error("heatpumps", flexible_cps, flexible_hps)

\* the returned pm
powermodels(flexible_cps, flexible_hps) ==
    [bus |-> force_slack_bus(build_bus),
     gen |-> build_gen,
     branch |-> build_branch,
     storage |-> build_storage,
     load |-> build_load(flexible_cps, flexible_hps),
     electromobility |-> IF Len(flexible_cps) = 0 THEN <<>>
                         ELSE build_electromobility(flexible_cps),
     heatpumps |-> IF Len(flexible_hps) = 0 THEN <<>>
                   ELSE build_heatpumps(flexible_hps),
     time_series |-> build_timeseries(flexible_cps, flexible_hps)]

\* the lists of distinct names taken from a set of names, up to two long
name_lists(S) ==
    {<<>>} \cup {<<a>> : a \in S} \cup {p \in S \X S : p[1] # p[2]}

to_powermodels ==
    \E flexible_cps \in name_lists({n \in Range(index(psa_net.loads)) :
                                       startswith(n, "Charging")}) :
    \E flexible_hps \in name_lists({n \in Range(index(psa_net.loads)) :
                                       startswith(n, "Heat_Pump")}) :
    \E has_cop \in BOOLEAN :
        /\ ret' = IF to_powermodels_error(flexible_cps, flexible_hps, has_cop) # "none"
                  THEN [op |-> "to_powermodels", arg |-> <<flexible_cps, flexible_hps>>,
                        err |-> to_powermodels_error(flexible_cps, flexible_hps, has_cop),
                        val |-> <<>>]
                  ELSE [op |-> "to_powermodels", arg |-> <<flexible_cps, flexible_hps>>,
                        err |-> "none",
                        val |-> powermodels(flexible_cps, flexible_hps)]
        /\ UNCHANGED inputs

----------------------------------------------------------------------------
(* Inputs *)

LoadFactorKeys == {"mv", "lv"} \X Cases \X {"line", "transformer"}

\* load factors: a and b for the MV feed-in and load case, swapped for LV
LoadFactorTable(a, b) ==
    [k \in LoadFactorKeys |->
        IF (k[1] = "mv") = (k[2] = "feed-in_case") THEN a ELSE b]

LoadFactorTables == {LoadFactorTable(a, b) : a \in {50, Unity}, b \in {50, Unity}}

RingCandidates == {{"A", "B", "C"}, {"C", "D"}}

\* ratings in kVA, lines first
RatingTable(l1, l2, l3, t5) ==
    (1 :> l1) @@ (2 :> l2) @@ (3 :> l3) @@
    (4 :> 400) @@ (5 :> t5) @@ (6 :> 400) @@ (7 :> 500) @@ (8 :> 500)

\* a row of s_res
LoadRow(l1, l2, l3, t4, t5, t6) ==
    (1 :> l1) @@ (2 :> l2) @@ (3 :> l3) @@ (4 :> t4) @@ (5 :> t5) @@ (6 :> t6)

\* voltages in 0.001 p.u.; the LV buses D, E, F follow A, B, C
VoltageRow(a, b, c) ==
    ("A" :> a) @@ ("B" :> b) @@ ("C" :> c) @@ ("D" :> a) @@ ("E" :> b) @@ ("F" :> c)

\* allowed voltage deviations in 0.001 p.u.
VoltageConfig(offset, control_deviation) ==
    [feedin_case_lower |-> 900,
     load_case_upper |-> 1100,
     hv_mv_trafo_offset |-> offset,
     hv_mv_trafo_control_deviation |-> control_deviation,
     max_v_deviation |->
        (<<"mv_lv", "feed-in_case">> :> 100) @@ (<<"mv_lv", "load_case">> :> 100) @@
        (<<"mv", "feed-in_case">> :> 50) @@ (<<"mv", "load_case">> :> 15) @@
        (<<"lv", "feed-in_case">> :> 35) @@ (<<"lv", "load_case">> :> 65) @@
        (<<"mv_lv_station", "feed-in_case">> :> 15) @@
        (<<"mv_lv_station", "load_case">> :> 20)]

nominal_voltage == v_res = [t \in Timesteps |-> VoltageRow(1000, 1000, 1000)]

no_power_flow == rings \in {{}} /\ s_res = <<>> /\ pfa_slack = <<>> /\ v_res = <<>>

\* the series of a component with static set point p
series(p) == [t \in Timesteps |-> 10 * p + t]

\* conventional loads first; a charging point before the conventional loads;
\* a heat pump and a charging point among the conventional loads
LoadTables ==
    {<< [name |-> <<"Load", 1>>, bus |-> "B", p_set |-> 11],
        [name |-> <<"Load", 2>>, bus |-> "C", p_set |-> 12],
        [name |-> <<"Charging", 1>>, bus |-> "B", p_set |-> 21],
        [name |-> <<"Charging", 2>>, bus |-> "C", p_set |-> 22] >>,
     << [name |-> <<"Charging", 1>>, bus |-> "B", p_set |-> 21],
        [name |-> <<"Load", 1>>, bus |-> "B", p_set |-> 11],
        [name |-> <<"Charging", 2>>, bus |-> "C", p_set |-> 22],
        [name |-> <<"Load", 2>>, bus |-> "C", p_set |-> 12] >>,
     << [name |-> <<"Load", 1>>, bus |-> "B", p_set |-> 11],
        [name |-> <<"Heat_Pump", 1>>, bus |-> "C", p_set |-> 31],
        [name |-> <<"Load", 2>>, bus |-> "C", p_set |-> 12],
        [name |-> <<"Charging", 1>>, bus |-> "B", p_set |-> 21] >>}

\* a transformer of the table: name, bus pair, impedance (ohm) and rating
Transformer(name, bus1, r, x, rating) ==
    [name |-> name, bus0 |-> "A", bus1 |-> bus1, r |-> Div(r, 1), x |-> Div(x, 1),
     s_nom |-> rating, tap_ratio |-> <<1>>]

\* the names "T1_1", "T1_2", "T2_1" with impedance and rating
TransformerKinds ==
    {<< <<"T", "1", "_", "1">>, 2, 4, 400 >>,
     << <<"T", "1", "_", "2">>, 2, 4, 400 >>,
     << <<"T", "2", "_", "1">>, 3, 5, 630 >>}

\* one to three transformers of different names, each between A and B or
\* between A and C
TransformerTables ==
    LET rows == {Transformer(k[1], b, k[2], k[3], k[4]) : k \in TransformerKinds,
                                                           b \in {"B", "C"}}
        lists == {<<a>> : a \in rows} \cup (rows \X rows) \cup (rows \X rows \X rows)
    IN {df \in lists : \A i, j \in DOMAIN df : i # j => df[i].name # df[j].name}

\* the transformer tables of the exported network: one transformer, or two
\* parallel ones
SnapshotTransformers ==
    {<<Transformer(<<"T", "1", "_", "1">>, "B", 2, 4, 400)>>,
     <<Transformer(<<"T", "1", "_", "1">>, "B", 2, 4, 400),
       Transformer(<<"T", "1", "_", "2">>, "B", 2, 4, 400)>>}

\* the pypsa network of the feeder A - B - C with its time series
Snapshot(control_a, control_c, slack_bus, loads, transformers) ==
    LET generators == << [name |-> <<"Generator", 1>>, bus |-> "B", p_set |-> 41],
                         [name |-> <<"Generator_slack", 0>>, bus |-> slack_bus,
                          p_set |-> 40] >>
        storage_units == << [name |-> <<"Storage", 1>>, bus |-> "C", p_set |-> 51] >>
        rows == Range(generators) \cup Range(storage_units) \cup Range(loads)
    IN [buses |-> << [name |-> "A", control |-> control_a],
                     [name |-> "B", control |-> "PQ"],
                     [name |-> "C", control |-> control_c] >>,
        generators |-> generators,
        lines |-> << [name |-> <<"Line", 2>>, bus0 |-> "B", bus1 |-> "C"],
                     [name |-> <<"Line", 1>>, bus0 |-> "A", bus1 |-> "B"] >>,
        transformers |-> transformers,
        storage_units |-> storage_units,
        loads |-> loads,
        p_set_t |-> [n \in {row.name : row \in rows} |->
                        series((CHOOSE row \in rows : row.name = n).p_set)],
        flex_bands |-> [n \in {row.name : row \in Range(loads)} |->
                           series((CHOOSE row \in Range(loads) : row.name = n).p_set + 1)],
        snapshots |-> NT]

\* no network converted
NoSnapshot ==
    [buses |-> <<>>, generators |-> <<>>, lines |-> <<>>, transformers |-> <<>>,
     storage_units |-> <<>>, loads |-> <<>>, p_set_t |-> <<>>, flex_bands |-> <<>>,
     snapshots |-> 0]

\* varied: ring buses, ratings, cases, load factors
InitAllowed ==
    /\ rings \in SUBSET RingCandidates
    /\ s_nom \in {RatingTable(l1, l2, l3, t5) :
                     l1 \in {1000, 2000}, l2 \in {1000, 2000}, l3 \in {1000},
                     t5 \in {230, 630}}
    /\ timesteps_load_feedin_case \in [Timesteps -> Cases]
    /\ config \in LoadFactorTables
    /\ s_res = [t \in Timesteps |-> LoadRow(500, 500, 500, 200, 100, 200)]
    /\ pfa_slack = [t \in Timesteps |-> [p |-> 300, q |-> 400]]
    /\ nominal_voltage
    /\ v_config = VoltageConfig(0, 0)
    /\ lv_grids = LVGrids
    /\ psa_net = NoSnapshot
    /\ ret = NoCall

NextAllowed == LinesAllowedLoad \/ StationAllowedLoad

SpecAllowed == InitAllowed /\ [][NextAllowed]_vars

\* varied: ring buses, cases, load factors, line loadings
InitLines ==
    /\ s_nom = RatingTable(1000, 2000, 1000, 230)
    /\ timesteps_load_feedin_case \in [Timesteps -> Cases]
    /\ config \in LoadFactorTables
    /\ \/ /\ rings \in {{{"A", "B", "C"}}, RingCandidates}
          /\ s_res \in [Timesteps ->
                 {LoadRow(l1, l2, 2000 - l1, 200, 100, 200) :
                     l1 \in {500, 1000, 1500}, l2 \in {1500, 2500}}]
          /\ pfa_slack = [t \in Timesteps |-> [p |-> 300, q |-> 400]]
          /\ nominal_voltage
       \/ no_power_flow
    /\ v_config = VoltageConfig(0, 0)
    /\ lv_grids = LVGrids
    /\ psa_net = NoSnapshot
    /\ ret = NoCall

NextLines == mv_line_overload \/ lv_line_overload

SpecLines == InitLines /\ [][NextLines]_vars

\* loading of LV station 1 (transformers 4 and 5) and of the slack
StationRow(k, t6) ==
    [s |-> LoadRow(500, 500, 500,
                   IF k <= 2 THEN 200 ELSE 400,
                   IF k = 1 THEN 115 ELSE IF k = 2 THEN 175 ELSE IF k = 3 THEN 230 ELSE 300,
                   t6),
     slack |-> IF k = 1 THEN [p |-> 300, q |-> 400]
               ELSE IF k = 2 THEN [p |-> -360, q |-> 480]
               ELSE IF k = 3 THEN [p |-> -600, q |-> -800]
               ELSE [p |-> 720, q |-> 960]]

StationRows == {StationRow(k, t6) : k \in 1..4, t6 \in {200, 500}}

\* varied: cases, load factors, transformer loadings, slack power
InitStations ==
    /\ s_nom = RatingTable(1000, 2000, 1000, 230)
    /\ timesteps_load_feedin_case \in [Timesteps -> Cases]
    /\ config \in LoadFactorTables
    /\ \/ /\ rings = {}
          /\ \E rows \in [Timesteps -> StationRows] :
                /\ s_res = [t \in Timesteps |-> rows[t].s]
                /\ pfa_slack = [t \in Timesteps |-> rows[t].slack]
          /\ nominal_voltage
       \/ no_power_flow
    /\ v_config = VoltageConfig(0, 0)
    /\ lv_grids = LVGrids
    /\ psa_net = NoSnapshot
    /\ ret = NoCall

NextStations == hv_mv_station_overload \/ mv_lv_station_overload

SpecStations == InitStations /\ [][NextStations]_vars

\* loading of line 1, of the transformers 4, 5, 6 and of the slack
RelativeRows ==
    {[s |-> LoadRow(500, 500, 500, 200, 100, 200), slack |-> [p |-> 300, q |-> 400]],
     [s |-> LoadRow(1500, 500, 500, 400, 300, 500), slack |-> [p |-> -600, q |-> -800]],
     [s |-> LoadRow(1000, 500, 500, 200, 115, 200), slack |-> [p |-> -360, q |-> 480]]}

\* the components the power flow was run for: all, the MV lines, LV grid 1,
\* the MV lines and one of the two transformers of LV grid 1
ResultColumns == {Components, {1, 2}, {3, 4, 5}, {1, 2, 4}}

\* varied: cases, load factors, loadings, the part of the network in the results
InitRelative ==
    /\ s_nom = RatingTable(1000, 2000, 1000, 230)
    /\ timesteps_load_feedin_case \in [Timesteps -> Cases]
    /\ config \in {LoadFactorTable(Unity, 50), LoadFactorTable(50, Unity)}
    /\ \/ /\ rings = {{"A", "B", "C"}}
          /\ \E rows \in [Timesteps -> RelativeRows] :
             \E columns \in ResultColumns :
                /\ s_res = [t \in Timesteps |-> [c \in columns |-> rows[t].s[c]]]
                /\ pfa_slack = [t \in Timesteps |-> rows[t].slack]
          /\ nominal_voltage
       \/ no_power_flow
    /\ v_config = VoltageConfig(0, 0)
    /\ lv_grids = LVGrids
    /\ psa_net = NoSnapshot
    /\ ret = NoCall

NextRelative == LinesRelativeLoad \/ StationsRelativeLoad \/ hv_mv_station_overload

SpecRelative == InitRelative /\ [][NextRelative]_vars

\* all buses high; all low; on the limits; one bus high; mixed
VoltageRows ==
    {VoltageRow(1140, 1120, 1120), VoltageRow(870, 880, 860),
     VoltageRow(900, 1100, 1000), VoltageRow(1000, 1120, 1100),
     VoltageRow(1110, 890, 1105)}

\* varied: cases, bus voltages, the network with and without LV grids
InitVoltage ==
    /\ rings = {}
    /\ s_nom = RatingTable(1000, 2000, 1000, 230)
    /\ timesteps_load_feedin_case \in [Timesteps -> Cases]
    /\ config = LoadFactorTable(Unity, 50)
    /\ s_res = [t \in Timesteps |-> LoadRow(500, 500, 500, 200, 100, 200)]
    /\ pfa_slack = [t \in Timesteps |-> [p |-> 300, q |-> 400]]
    /\ v_res \in [Timesteps -> VoltageRows]
    /\ v_config = VoltageConfig(0, 0)
    /\ lv_grids \in {LVGrids, <<>>}
    /\ psa_net = NoSnapshot
    /\ ret = NoCall

NextVoltage ==
    mv_voltage_deviation \/ lv_voltage_deviation \/ check_ten_percent_voltage_deviation

SpecVoltage == InitVoltage /\ [][NextVoltage]_vars

\* the configured deviations: the shipped values, and a table with a smaller
\* allowance in the load case of the combined mode
VoltageConfigs ==
    {VoltageConfig(offset, control_deviation) :
        offset \in {0, 20}, control_deviation \in {0, 15}}
    \cup {[VoltageConfig(20, 15) EXCEPT !.max_v_deviation[<<"mv_lv", "load_case">>] = 80]}

\* varied: cases, bus voltages, offset, control deviation and allowances
InitLimits ==
    /\ rings = {}
    /\ s_nom = RatingTable(1000, 2000, 1000, 230)
    /\ timesteps_load_feedin_case \in [Timesteps -> Cases]
    /\ config = LoadFactorTable(Unity, 50)
    /\ s_res = [t \in Timesteps |-> LoadRow(500, 500, 500, 200, 100, 200)]
    /\ pfa_slack = [t \in Timesteps |-> [p |-> 300, q |-> 400]]
    /\ v_res \in [Timesteps -> {VoltageRow(1140, 1120, 1120),
                                VoltageRow(900, 1100, 1000),
                                VoltageRow(1110, 890, 1105)}]
    /\ v_config \in VoltageConfigs
    /\ lv_grids = LVGrids
    /\ psa_net = NoSnapshot
    /\ ret = NoCall

NextLimits == MvAllowedVoltageLimits \/ LvAllowedVoltageLimits \/ VoltageDiff

SpecLimits == InitLimits /\ [][NextLimits]_vars

\* varied: control of the buses, bus of the slack generator, order and kind of the
\* loads, number of the transformers
InitExport ==
    /\ s_nom = RatingTable(1000, 2000, 1000, 230)
    /\ timesteps_load_feedin_case = [t \in Timesteps |-> "load_case"]
    /\ config = LoadFactorTable(Unity, 50)
    /\ no_power_flow
    /\ v_config = VoltageConfig(0, 0)
    /\ lv_grids = LVGrids
    /\ psa_net \in {Snapshot(control_a, control_c, slack_bus, loads, transformers) :
                      transformers \in SnapshotTransformers,
                      control_a \in {"Slack", "PQ"},
                      control_c \in {"PQ", "PV", "Slack", "None"},
                      slack_bus \in {"A", "C"},
                      loads \in LoadTables}
    /\ ret = NoCall

NextExport == to_powermodels

SpecExport == InitExport /\ [][NextExport]_vars

\* varied: number, order, names and bus pairs of the transformers
InitAggregate ==
    /\ s_nom = RatingTable(1000, 2000, 1000, 230)
    /\ timesteps_load_feedin_case = [t \in Timesteps |-> "load_case"]
    /\ config = LoadFactorTable(Unity, 50)
    /\ no_power_flow
    /\ v_config = VoltageConfig(0, 0)
    /\ lv_grids = LVGrids
    /\ psa_net \in {[NoSnapshot EXCEPT !.transformers = df] : df \in TransformerTables}
    /\ ret = NoCall

NextAggregate == AggregateParallelTransformers

SpecAggregate == InitAggregate /\ [][NextAggregate]_vars

\* the line and the station checks together
InitLoading == InitLines \/ InitStations

NextLoading == NextLines \/ NextStations

SpecLoading == InitLoading /\ [][NextLoading]_vars

\* all analysis calls on one set of results
InitAnalysis ==
    /\ rings = {}
    /\ s_nom = RatingTable(1000, 2000, 1000, 230)
    /\ timesteps_load_feedin_case \in [Timesteps -> Cases]
    /\ config = LoadFactorTable(Unity, 50)
    /\ s_res = [t \in Timesteps |-> LoadRow(500, 500, 500, 200, 100, 200)]
    /\ pfa_slack = [t \in Timesteps |-> [p |-> 300, q |-> 400]]
    /\ v_res \in [Timesteps -> {VoltageRow(1140, 1120, 1120),
                                VoltageRow(900, 1100, 1000),
                                VoltageRow(1110, 890, 1105)}]
    /\ v_config = VoltageConfig(0, 0)
    /\ lv_grids \in {LVGrids, <<>>}
    /\ psa_net = NoSnapshot
    /\ ret = NoCall

NextAnalysis == NextLoading \/ NextRelative \/ NextVoltage

SpecAnalysis == InitAnalysis /\ [][NextAnalysis]_vars

----------------------------------------------------------------------------
(* Properties of the allowed loading *)

LinesIn(voltage_level) == IF voltage_level = "mv" THEN {1, 2} ELSE {3}

RingLine(l) == {LineRow(l).bus0, LineRow(l).bus1} \subseteq UNION rings

LineFactor(voltage_level, t) ==
    config[<<voltage_level, timesteps_load_feedin_case[t], "line">>]

RECURSIVE RatingSum(_)
RatingSum(S) ==
    IF S = {} THEN 0
    ELSE LET n == CHOOSE x \in S : TRUE IN s_nom[n] + RatingSum(S \ {n})

StationTransformers(grid) ==
    IF grid = mv_grid THEN {7, 8} ELSE IF grid = 1 THEN {4, 5} ELSE {6}

\* C1: where the line load factor of a time step's case is not 1.0, the allowed
\* load of every line of the voltage level at that time step is rating x load
\* factor of that case if both end buses of the line are ring buses, and the
\* rating otherwise.
C1_LineAllowedLoad ==
    ret.op = "_lines_allowed_load_voltage_level" =>
        /\ DOMAIN ret.val = Timesteps
        /\ \A t \in Timesteps :
              /\ DOMAIN ret.val[t] = LinesIn(ret.arg)
              /\ LineFactor(ret.arg, t) # Unity =>
                    \A l \in LinesIn(ret.arg) :
                        ret.val[t][l] * Unity =
                            IF RingLine(l) THEN s_nom[l] * LineFactor(ret.arg, t)
                            ELSE s_nom[l] * Unity

\* two ring lines A-B and B-C of 1 MVA, load factor 0.5 in both cases: 0.5 MVA each
C1_Witness ==
    /\ ret.op = "_lines_allowed_load_voltage_level" /\ ret.arg = "mv"
    /\ RingLine(1) /\ RingLine(2) /\ ~RingLine(3)
    /\ s_nom[1] = 1000 /\ s_nom[2] = 1000
    /\ timesteps_load_feedin_case[1] # timesteps_load_feedin_case[2]
    /\ \A t \in Timesteps :
          LineFactor("mv", t) = 50 /\ ret.val[t][1] = 500 /\ ret.val[t][2] = 500

\* C2: where the line load factor of a time step's case is 1.0, the allowed load
\* of every line at that time step is its rating, whatever the ring buses are.
C2_UnityLoadFactor ==
    ret.op = "_lines_allowed_load_voltage_level" =>
        \A t \in Timesteps :
            LineFactor(ret.arg, t) = Unity =>
                \A l \in LinesIn(ret.arg) : ret.val[t][l] = s_nom[l]

\* a ring line at its rating in the case with factor 1.0, below it in the other case
C2_Witness ==
    /\ ret.op = "_lines_allowed_load_voltage_level"
    /\ \E l \in LinesIn(ret.arg) : \E t, u \in Timesteps :
          /\ RingLine(l)
          /\ LineFactor(ret.arg, t) = Unity /\ ret.val[t][l] = s_nom[l]
          /\ LineFactor(ret.arg, u) = 50 /\ ret.val[u][l] < s_nom[l]

\* C3: the allowed station load of a grid at every time step is the sum of the
\* ratings of the station's transformers (the HV/MV transformers for the MV
\* grid, the grid's own for an LV grid) times the transformer load factor of the
\* grid's voltage level and the time step's case.
C3_StationAllowedLoad ==
    ret.op = "_station_allowed_load" =>
        /\ DOMAIN ret.val = Timesteps
        /\ \A t \in Timesteps :
              ret.val[t] * Unity =
                  RatingSum(StationTransformers(ret.arg)) *
                  config[<<IF ret.arg = mv_grid THEN "mv" ELSE "lv",
                           timesteps_load_feedin_case[t], "transformer">>]

\* LV station with transformers of 0.4 and 0.23 MVA, load factor 0.5: 0.315 MVA
C3_Witness ==
    /\ ret.op = "_station_allowed_load" /\ ret.arg = 1
    /\ s_nom[4] = 400 /\ s_nom[5] = 230
    /\ config[<<"lv", timesteps_load_feedin_case[1], "transformer">>] = 50
    /\ ret.val[1] = 315
    /\ config[<<"lv", timesteps_load_feedin_case[2], "transformer">>] = Unity
    /\ ret.val[2] = 630

----------------------------------------------------------------------------
(* Properties of the over-loading reports *)

Names(rows) == {rows[i].name : i \in DOMAIN rows}

NoDuplicates(rows) == \A i, j \in DOMAIN rows : rows[i].name = rows[j].name => i = j

\* C4: a line of the checked voltage level is in the report iff its loading
\* exceeds its allowed loading at some time step; max_rel_overload is the ratio
\* at time_index and no time step has a larger ratio.
C4_LineOverloadReport ==
    (ret.op = "_line_overload" /\ s_res # <<>>) =>
        LET rows == ret.val
            allowed == lines_allowed_load(lines_of_voltage_level(ret.arg))
        IN /\ ret.err = "none"
           /\ NoDuplicates(rows)
           /\ Names(rows) =
                 {l \in LinesIn(ret.arg) :
                     \E t \in Timesteps : s_res[t][l] > allowed[t][l]}
           /\ \A i \in DOMAIN rows :
                 LET l == rows[i].name
                     ti == rows[i].time_index
                     m == rows[i].max_rel_overload
                 IN /\ ti \in Timesteps
                    /\ rows[i].voltage_level = ret.arg
                    /\ m.num * allowed[ti][l] = s_res[ti][l] * m.den
                    /\ \A t \in Timesteps :
                          s_res[t][l] * allowed[ti][l] <= s_res[ti][l] * allowed[t][l]

\* line 2 is over-loaded most at the second time step; line 1 is loaded to
\* exactly its allowed load and is not reported
C4_Witness ==
    /\ ret.op = "_line_overload" /\ ret.arg = "mv" /\ ret.err = "none"
    /\ Len(ret.val) = 1
    /\ ret.val[1].name = 2 /\ ret.val[1].time_index = 2
    /\ ret.val[1].max_rel_overload = [num |-> 5, den |-> 2]
    /\ RatLess(One, Div(s_res[1][2], lines_allowed_load(<<2>>)[1][2]))
    /\ \A t \in Timesteps : s_res[t][1] = lines_allowed_load(<<1>>)[t][1]

StationOverloaded(grid) ==
    \E t \in Timesteps : station_load(grid)[t] > station_allowed_load(grid)[t]

\* C5: the station check of a grid yields one row, named after the grid's
\* station, iff the station's loading exceeds its allowed loading at some time
\* step, and no row otherwise.
C5_StationOverloadReport ==
    /\ (ret.op = "hv_mv_station_overload" /\ s_res # <<>>) =>
          /\ ret.err = "none"
          /\ IF StationOverloaded(mv_grid)
             THEN Len(ret.val) = 1 /\ ret.val[1].name = station_name(mv_grid)
             ELSE ret.val = <<>>
    /\ (ret.op = "mv_lv_station_overload" /\ s_res # <<>>) =>
          /\ ret.err = "none"
          /\ NoDuplicates(ret.val)
          /\ Names(ret.val) =
                {station_name(g) : g \in {g \in {1, 2} : StationOverloaded(g)}}

\* rating sum 0.63 MVA, load factor 1.0, 0.7 MVA at the second time step only
C5_Witness ==
    /\ ret.op = "mv_lv_station_overload" /\ ret.err = "none"
    /\ s_nom[4] + s_nom[5] = 630
    /\ config[<<"lv", timesteps_load_feedin_case[2], "transformer">>] = Unity
    /\ s_res[2][4] + s_res[2][5] = 700
    /\ s_res[1][4] + s_res[1][5] = 315
    /\ \E i \in DOMAIN ret.val :
          /\ ret.val[i].name = station_name(1)
          /\ ret.val[i].s_missing = [num |-> 70, den |-> 1]
          /\ ret.val[i].time_index = 2

StationReport ==
    IF ret.op \in {"hv_mv_station_overload", "mv_lv_station_overload"}
    THEN ret.val ELSE <<>>

Residual(grid, t) == station_allowed_load(grid)[t] - station_load(grid)[t]

\* missing capacity at a time step: -residual / load factor
Missing(grid, t) == Div((-Residual(grid, t)) * Unity, transformer_load_factor(grid)[t])

\* C6 as stated: s_missing is non-negative and is the smallest residual over
\* all time steps, divided by the load factor of the time step of that smallest
\* residual, which is time_index.
C6_MinResidual ==
    \A i \in DOMAIN StationReport :
        LET row == StationReport[i]
        IN /\ row.s_missing.num >= 0
           /\ \A t \in Timesteps :
                 Residual(row.grid, row.time_index) <= Residual(row.grid, t)
           /\ row.s_missing = Missing(row.grid, row.time_index)

\* C6 amended: s_missing is positive and is the greatest, over the over-loaded
\* time steps, of -residual / load factor of that time step; time_index is a
\* time step at which this greatest value occurs.
C6_GreatestMissing ==
    \A i \in DOMAIN StationReport :
        LET row == StationReport[i]
        IN /\ row.s_missing.num > 0 /\ row.s_missing.den > 0
           /\ row.time_index \in Timesteps
           /\ Residual(row.grid, row.time_index) < 0
           /\ row.s_missing = Missing(row.grid, row.time_index)
           /\ \A t \in Timesteps :
                 Residual(row.grid, t) < 0 =>
                     ~RatLess(row.s_missing, Missing(row.grid, t))

\* the smallest residual (-0.07 MVA, load factor 1.0) is at the first time step,
\* the greatest missing capacity (0.06 / 0.5 = 0.12 MVA) at the second
C6_Witness ==
    /\ ret.op = "mv_lv_station_overload" /\ ret.err = "none"
    /\ \E i \in DOMAIN ret.val :
          /\ ret.val[i].grid = 1
          /\ Residual(1, 1) = -70 /\ transformer_load_factor(1)[1] = Unity
          /\ Residual(1, 2) = -60 /\ transformer_load_factor(1)[2] = 50
          /\ ret.val[i].s_missing = [num |-> 120, den |-> 1]
          /\ ret.val[i].time_index = 2

----------------------------------------------------------------------------
(* Voltage reports *)

VoltageReported ==
    ret.op \in {"mv_voltage_deviation", "lv_voltage_deviation"} /\ ret.err = "none"

CheckedGrids == IF ret.op = "mv_voltage_deviation" THEN {mv_grid} ELSE Range(lv_grids)

CheckedBusSeq(g) ==
    IF ret.op = "mv_voltage_deviation" THEN mv_grid_buses
    ELSE IF ret.arg[1] = "stations" THEN lv_grid_station(g) ELSE lv_grid_buses(g)

CheckedBuses(g) == Range(CheckedBusSeq(g))

Limits(g) ==
    IF ret.op = "mv_voltage_deviation" THEN mv_allowed_voltage_limits(ret.arg[1])
    ELSE IF ret.arg[2] = "lv" THEN lv_allowed_voltage_limits(g, ret.arg[1])
    ELSE mv_allowed_voltage_limits("mv_lv")

Report(g) == IF g \in DOMAIN ret.val THEN ret.val[g] ELSE <<>>

RowsOf(g, b) == {i \in DOMAIN Report(g) : Report(g)[i].bus = b}

Over(g, b, t) == v_res[t][b] - Limits(g).upper[t]

Under(g, b, t) == Limits(g).lower[t] - v_res[t][b]

PeakOver(g, b) == IntMax({Over(g, b, t) : t \in Timesteps})

PeakUnder(g, b) == IntMax({Under(g, b, t) : t \in Timesteps})

\* the row reports the overvoltage peak of the bus
IsOverRow(g, r) ==
    r.v_diff_max = PeakOver(g, r.bus) /\ Over(g, r.bus, r.time_index) = r.v_diff_max

\* the row reports the undervoltage peak of the bus
IsUnderRow(g, r) ==
    r.v_diff_max = PeakUnder(g, r.bus) /\ Under(g, r.bus, r.time_index) = r.v_diff_max

DiffBuses(rows) == {rows[i].bus : i \in DOMAIN rows}

\* C7: a bus above the upper limit at some step and below the lower limit at
\* some step has exactly one row in the report, the row of the bound with the
\* larger peak deviation, undervoltage when the peaks are equal; voltage_diff
\* never returns a bus in both of its result sets.
C7_WorstBoundOnly ==
    VoltageReported =>
        \A g \in CheckedGrids :
            /\ \A b \in CheckedBuses(g) :
                  (PeakOver(g, b) > 0 /\ PeakUnder(g, b) > 0) =>
                      /\ Cardinality(RowsOf(g, b)) = 1
                      /\ \A i \in RowsOf(g, b) :
                            IF PeakOver(g, b) > PeakUnder(g, b)
                            THEN IsOverRow(g, Report(g)[i])
                            ELSE IsUnderRow(g, Report(g)[i])
            /\ LET d == voltage_diff(CheckedBusSeq(g), Limits(g).upper, Limits(g).lower)
               IN DiffBuses(d.ov) \cap DiffBuses(d.uv) = {}

\* one report holds a bus with equal peaks and a bus whose overvoltage peak is larger
C7_Witness ==
    /\ VoltageReported
    /\ \E g \in CheckedGrids :
          /\ \E b \in CheckedBuses(g) :
                PeakOver(g, b) > 0 /\ PeakOver(g, b) = PeakUnder(g, b) /\ RowsOf(g, b) # {}
          /\ \E b \in CheckedBuses(g) :
                PeakUnder(g, b) > 0 /\ PeakOver(g, b) > PeakUnder(g, b) /\ RowsOf(g, b) # {}

\* C8: a bus is in the report iff it is strictly outside the limits at some step;
\* v_diff_max is the positive maximum over all steps of the deviation from the
\* retained bound, and time_index is a step where that maximum occurs.
C8_ReportContent ==
    VoltageReported =>
        \A g \in CheckedGrids :
            /\ DiffBuses(Report(g)) \subseteq CheckedBuses(g)
            /\ \A b \in CheckedBuses(g) :
                  /\ RowsOf(g, b) # {} <=>
                        \E t \in Timesteps :
                            \/ v_res[t][b] > Limits(g).upper[t]
                            \/ v_res[t][b] < Limits(g).lower[t]
                  /\ \A i \in RowsOf(g, b) :
                        /\ Report(g)[i].v_diff_max > 0
                        /\ Report(g)[i].time_index \in Timesteps
                        /\ IF PeakOver(g, b) > PeakUnder(g, b)
                           THEN IsOverRow(g, Report(g)[i])
                           ELSE IsUnderRow(g, Report(g)[i])

\* a reported bus next to a bus that only touches a limit, the peak at the later step
C8_Witness ==
    /\ VoltageReported
    /\ \E g \in CheckedGrids :
          /\ \E b \in CheckedBuses(g) :
                /\ RowsOf(g, b) = {}
                /\ \E t \in Timesteps :
                      \/ v_res[t][b] = Limits(g).upper[t]
                      \/ v_res[t][b] = Limits(g).lower[t]
          /\ \E i \in DOMAIN Report(g) :
                Report(g)[i].time_index > 1 /\ Report(g)[i].v_diff_max > 0

\* C9: the report of every grid is ordered by non-increasing v_diff_max.
C9_WorstFirst ==
    VoltageReported =>
        \A g \in DOMAIN ret.val :
            \A i, j \in DOMAIN ret.val[g] :
                i < j => ret.val[g][i].v_diff_max >= ret.val[g][j].v_diff_max

\* a report of over- and undervoltage rows that had to be reordered
C9_Witness ==
    /\ VoltageReported
    /\ \E g \in DOMAIN ret.val :
          LET d == voltage_diff(CheckedBusSeq(g), Limits(g).upper, Limits(g).lower)
          IN /\ d.ov # <<>> /\ d.uv # <<>>
             /\ ret.val[g] # append_crit_buses(d.ov) \o append_crit_buses(d.uv)
             /\ ret.val[g][1].v_diff_max > ret.val[g][Len(ret.val[g])].v_diff_max

----------------------------------------------------------------------------
(* Order of the overload reports *)

LineReport == IF ret.op = "_line_overload" THEN ret.val ELSE <<>>

CombinedStationReport == IF ret.op = "mv_lv_station_overload" THEN ret.val ELSE <<>>

\* position of a line in lines_df
TablePosition(l) == CHOOSE i \in DOMAIN lines_df : lines_df[i].name = l

\* position of an LV grid in lv_grids
GridPosition(g) == CHOOSE i \in DOMAIN lv_grids : lv_grids[i] = g

\* C10 as stated: the line-overload reports and the combined station-overload
\* report are sorted descending by their magnitude column, rows of equal
\* magnitude in their original order.
C10_SortedByMagnitude ==
    /\ \A i, j \in DOMAIN LineReport :
          i < j =>
             /\ ~RatLess(LineReport[i].max_rel_overload, LineReport[j].max_rel_overload)
             /\ LineReport[i].max_rel_overload = LineReport[j].max_rel_overload =>
                   TablePosition(LineReport[i].name) < TablePosition(LineReport[j].name)
    /\ \A i, j \in DOMAIN CombinedStationReport :
          i < j =>
             /\ ~RatLess(CombinedStationReport[i].s_missing,
                         CombinedStationReport[j].s_missing)
             /\ CombinedStationReport[i].s_missing = CombinedStationReport[j].s_missing =>
                   GridPosition(CombinedStationReport[i].grid)
                      < GridPosition(CombinedStationReport[j].grid)

\* C10 amended: the rows of a line-overload report are in ascending order of the
\* line names and the rows of the combined station-overload report are in the
\* order of the LV grids, whatever the magnitudes.
C10_OrderedByNameOrGrid ==
    /\ \A i, j \in DOMAIN LineReport :
          i < j => LineReport[i].name < LineReport[j].name
    /\ \A i, j \in DOMAIN CombinedStationReport :
          i < j => GridPosition(CombinedStationReport[i].grid)
                      < GridPosition(CombinedStationReport[j].grid)

\* a line report and a station report whose later row has the larger magnitude
C10_Witness ==
    \/ /\ ret.op = "_line_overload" /\ ret.err = "none" /\ Len(ret.val) = 2
       /\ RatLess(ret.val[1].max_rel_overload, ret.val[2].max_rel_overload)
       /\ TablePosition(ret.val[1].name) > TablePosition(ret.val[2].name)
    \/ /\ ret.op = "mv_lv_station_overload" /\ ret.err = "none" /\ Len(ret.val) = 2
       /\ RatLess(ret.val[1].s_missing, ret.val[2].s_missing)

----------------------------------------------------------------------------
(* Errors *)

\* C11: the strict check raises the fatal error iff some bus voltage at some
\* time step is strictly above 1.1 or strictly below 0.9 p.u., and returns no
\* report; the deviation checks called with valid options report and never raise.
C11_TenPercentFatal ==
    /\ ret.op = "check_ten_percent_voltage_deviation" =>
          /\ ret.err \in {"none", "FatalConstraintViolation"}
          /\ ret.err = "FatalConstraintViolation" <=>
                \E t \in Timesteps : \E b \in Buses : v_res[t][b] > 1100 \/ v_res[t][b] < 900
          /\ ret.val = <<>>
    /\ (/\ ret.op = "mv_voltage_deviation"
        /\ ret.arg[1] \in {"mv_lv", "mv"}) => ret.err = "none"
    /\ (/\ ret.op = "lv_voltage_deviation"
        /\ ret.arg[1] \in {"None", "stations"}
        /\ ret.arg[2] \in {"mv_lv", "lv"}) => ret.err = "none"

\* the strict check raised for a bus at 0.88 and then 1.12 p.u.
C11_Witness ==
    /\ ret.op = "check_ten_percent_voltage_deviation"
    /\ ret.err = "FatalConstraintViolation"
    /\ \E b \in Buses : v_res[1][b] = 880 /\ v_res[2][b] = 1120

\* C12: with empty power flow results the line-overload check and the
\* station-overload checks of the MV grid and of the LV grids each fail with the
\* no-results error and return no report.
C12_NoResultsError ==
    (/\ s_res = <<>>
     /\ ret.op \in {"_line_overload", "hv_mv_station_overload", "mv_lv_station_overload"}) =>
        ret.err = "NoResultsAvailable" /\ ret.val = <<>>

----------------------------------------------------------------------------
(* Relative loading and the results it needs *)

MVInResults == \E l \in LinesIn("mv") : l \in s_res_columns

\* sqrt(p^2 + q^2) of the slack at a time step
SlackLoad(t) ==
    CHOOSE L \in 0..2000 : L * L = pfa_slack[t].p * pfa_slack[t].p
                                      + pfa_slack[t].q * pfa_slack[t].q

HVMVAllowed(t) ==
    (RatingSum(StationTransformers(mv_grid))
        * config[<<"mv", timesteps_load_feedin_case[t], "transformer">>]) \div Unity

\* C13: the HV/MV station check takes the station loading from the slack,
\* sqrt(p^2 + q^2) per time step, when some MV line is in the results;
\* otherwise it fails with the prerequisite-missing error and returns no report.
C13_SlackLoadNeedsMV ==
    ret.op = "hv_mv_station_overload" =>
        IF MVInResults
        THEN /\ ret.err = "none"
             /\ ret.val # <<>> <=> \E t \in Timesteps : SlackLoad(t) > HVMVAllowed(t)
             /\ \A i \in DOMAIN ret.val :
                   /\ SlackLoad(ret.val[i].time_index) > HVMVAllowed(ret.val[i].time_index)
                   /\ ret.val[i].s_missing =
                         Div((SlackLoad(ret.val[i].time_index)
                                 - HVMVAllowed(ret.val[i].time_index)) * Unity,
                             config[<<"mv", timesteps_load_feedin_case[ret.val[i].time_index],
                                      "transformer">>])
        ELSE ret.err = "PrerequisiteMissing" /\ ret.val = <<>>

\* the check failed on results of LV grid 1 only
C13_Witness ==
    /\ ret.op = "hv_mv_station_overload" /\ ret.err = "PrerequisiteMissing"
    /\ s_res # <<>> /\ pfa_slack # <<>> /\ ~MVInResults

\* the check reported the station from a slack of p = -600, q = -800
C13_WitnessSlack ==
    /\ ret.op = "hv_mv_station_overload" /\ ret.err = "none" /\ MVInResults
    /\ Len(ret.val) = 1
    /\ pfa_slack[ret.val[1].time_index] = [p |-> -600, q |-> -800]
    /\ ret.val[1].s_missing = [num |-> 1000, den |-> 1]

----------------------------------------------------------------------------
(* Invalid options *)

Rejected(allowed) ==
    ret.err = "InvalidArgument" /\ ret.val = <<>> /\ ret.msg = allowed

\* C14: an unrecognized voltage-level string in mv_voltage_deviation or
\* lv_voltage_deviation and an unrecognized mode in lv_voltage_deviation fail
\* with an invalid-argument error that names the allowed values and give no
\* report, whatever the number of LV grids.
C14_InvalidOptionRejected ==
    /\ (ret.op = "mv_voltage_deviation" /\ ret.arg[1] \notin {"mv_lv", "mv"}) =>
          Rejected({"mv_lv", "mv"})
    /\ (ret.op = "lv_voltage_deviation" /\ ret.arg[2] \notin {"mv_lv", "lv"}) =>
          Rejected({"mv_lv", "lv"})
    /\ (/\ ret.op = "lv_voltage_deviation"
        /\ ret.arg[2] \in {"mv_lv", "lv"}
        /\ ret.arg[1] \notin {"None", "stations"}) =>
          Rejected({"stations", "None"})

----------------------------------------------------------------------------
(* Relative loading matrices *)

LineLevel(l) == IF l \in LinesIn("mv") THEN "mv" ELSE "lv"

LineAllowed(l, t) ==
    IF LineFactor(LineLevel(l), t) # Unity /\ RingLine(l)
    THEN (s_nom[l] * LineFactor(LineLevel(l), t)) \div Unity
    ELSE s_nom[l]

RECURSIVE LoadSum(_, _)
LoadSum(S, t) ==
    IF S = {} THEN 0
    ELSE LET n == CHOOSE x \in S : TRUE IN s_res[t][n] + LoadSum(S \ {n}, t)

StationLoad(g, t) ==
    IF g = mv_grid THEN SlackLoad(t) ELSE LoadSum(StationTransformers(g), t)

StationAllowed(g, t) ==
    (RatingSum(StationTransformers(g))
        * config[<<IF g = mv_grid THEN "mv" ELSE "lv",
                   timesteps_load_feedin_case[t], "transformer">>]) \div Unity

\* C15: the relative loading of lines and of stations is realized / allowed for
\* every time step and every requested element whose loading is in the results,
\* as the full matrix: entries at or below 1 are kept, no reduction over time.
C15_RelativeIsRatio ==
    /\ (ret.op = "lines_relative_load" /\ ret.err = "none") =>
          /\ DOMAIN ret.val = DOMAIN s_res
          /\ \A t \in DOMAIN ret.val :
                /\ DOMAIN ret.val[t] = Range(ret.arg)
                /\ \A l \in Range(ret.arg) :
                      ret.val[t][l] = Div(s_res[t][l], LineAllowed(l, t))
    /\ (ret.op = "stations_relative_load" /\ ret.err = "none") =>
          /\ DOMAIN ret.val.rows = Timesteps
          /\ \A t \in Timesteps :
                /\ DOMAIN ret.val.rows[t] = Range(ret.val.columns)
                /\ \A g \in Range(ret.val.columns) :
                      ret.val.rows[t][g] = Div(StationLoad(g, t), StationAllowed(g, t))

\* a matrix of the two MV lines with an entry below 1, an entry of 1 and an
\* entry above 1, the entries of line 1 differing between the time steps
C15_Witness ==
    /\ ret.op = "lines_relative_load" /\ ret.err = "none"
    /\ ret.arg = <<2, 1>>
    /\ RatLess(ret.val[1][2], One)
    /\ ret.val[1][1] = One
    /\ RatLess(One, ret.val[2][1])

\* a matrix of all three stations with entries on both sides of 1
C15_WitnessStations ==
    /\ ret.op = "stations_relative_load" /\ ret.err = "none"
    /\ Len(ret.val.columns) = 3
    /\ \E g \in Range(ret.val.columns) : RatLess(ret.val.rows[1][g], One)
    /\ \E g \in Range(ret.val.columns) : RatLess(One, ret.val.rows[2][g])

\* the loading of the grid's station can be read from the results
Readable(g) ==
    IF g = mv_grid THEN MVInResults ELSE StationTransformers(g) \subseteq s_res_columns

\* C16: in the relative loading across grids a station that is not in the
\* results is skipped without an error: the result has one column for each
\* requested grid whose station loading is in the results, with the values it
\* would have had the skipped grids not been requested; a request for
\* something that is no grid of the network fails.
C16_MissingStationSkipped ==
    ret.op = "stations_relative_load" =>
        IF \A i \in DOMAIN ret.arg : ret.arg[i] = mv_grid \/ ret.arg[i] \in {1, 2}
        THEN /\ ret.err = "none"
             /\ ret.val.columns = SelectSeq(ret.arg, Readable)
             /\ \A t \in Timesteps : \A g \in Range(ret.val.columns) :
                   ret.val.rows[t][g] = Div(StationLoad(g, t), StationAllowed(g, t))
             /\ ret.val = stations_relative_load(ret.val.columns)
        ELSE ret.err = "InvalidArgument" /\ ret.val = <<>>

\* LV grid 1, the MV grid and LV grid 2 requested, only the MV station read
C16_Witness ==
    /\ ret.op = "stations_relative_load" /\ ret.err = "none"
    /\ ret.arg = <<1, mv_grid, 2>>
    /\ s_res # <<>>
    /\ ret.val.columns = <<mv_grid>>

----------------------------------------------------------------------------
(* Claims on the PowerModels export.                                        *)

\* the export returned a model
Exported == ret.op = "to_powermodels" /\ ret.err = "none"

\* the keys "1" .. "N" (N below ten)
Keys(N) == {<<k>> : k \in 1..N}

\* the keys of the dict are "1" .. "N" and the record under "k" has index k
Dense(d, N) ==
    /\ DOMAIN d = Keys(N)
    /\ \A k \in 1..N : d[<<k>>].index = k

\* position of the bus in the bus table
BusPosition(b) == CHOOSE i \in DOMAIN psa_net.buses : psa_net.buses[i].name = b

\* the loads that stay in the load table
StaticLoads ==
    {row \in Range(psa_net.loads) :
        row.name \notin Range(ret.arg[1]) \cup Range(ret.arg[2])}

\* the keys of the records with this set point
RecordKeys(d, field, value) == {k \in DOMAIN d : d[k][field] = value}

\* every element of the table has exactly one record, whose bus reference is
\* the key of the record of the element's bus
OneToOne(d, rows, field, bus_field) ==
    /\ \A row \in rows :
          /\ Cardinality(RecordKeys(d, field, row.p_set)) = 1
          /\ \A k \in RecordKeys(d, field, row.p_set) :
                d[k][bus_field] = BusPosition(row.bus)
    /\ \A k \in DOMAIN d :
          Cardinality({row \in rows : row.p_set = d[k][field]}) = 1

\* C17: in the exported model the keys of bus, gen, branch, load and storage
\* are exactly "1" .. "N" with N the number of exported elements, the record
\* under key k has index k, every element has exactly one record and every
\* record one element, and the index _mapping gives a bus is the key of the
\* record of that bus
C17_IndexBijection ==
    Exported =>
        LET pm == ret.val
        IN /\ Dense(pm.bus, Len(psa_net.buses))
           /\ Dense(pm.gen, Len(psa_net.generators))
           /\ Dense(pm.branch, Len(psa_net.lines))
           /\ Dense(pm.load, Cardinality(StaticLoads))
           /\ Dense(pm.storage, Len(psa_net.storage_units))
           /\ \A i \in DOMAIN psa_net.buses :
                 /\ mapping(psa_net.buses[i].name, "bus") = i
                 /\ pm.bus[<<i>>].bus_i = i
                 /\ pm.bus[<<i>>].bus_type =
                        IF psa_net.buses[i].name = slack_gen THEN 3
                        ELSE bus_type_int(psa_net.buses[i].control)
           /\ OneToOne(pm.gen, Range(psa_net.generators), "pg", "gen_bus")
           /\ OneToOne(pm.load, StaticLoads, "pd", "load_bus")
           /\ OneToOne(pm.storage, Range(psa_net.storage_units), "ps", "storage_bus")
           /\ \A row \in Range(psa_net.lines) :
                 /\ Cardinality(RecordKeys(pm.branch, "name", row.name)) = 1
                 /\ \A k \in RecordKeys(pm.branch, "name", row.name) :
                       /\ pm.branch[k].f_bus = BusPosition(row.bus0)
                       /\ pm.branch[k].t_bus = BusPosition(row.bus1)

\* an export with a flexible charging point that stands before conventional
\* loads in the load table, and the slack generator not at the first bus
C17_Witness ==
    /\ Exported
    /\ ret.arg[1] = << <<"Charging", 1>> >>
    /\ psa_net.loads[1].name = <<"Charging", 1>>
    /\ slack_gen = "C"
    /\ DOMAIN ret.val.load = Keys(3)

\* the key of the record of the load in pm["load"], by its set point
LoadRecordKeys(row) == RecordKeys(ret.val.load, "pd", row.p_set)

\* the key of the series of the load in pm["time_series"]["load"]
LoadSeriesKeys(row) ==
    RecordKeys(ret.val.time_series.load, "pd", psa_net.p_set_t[row.name])

\* C18: for every load with a record in pm["load"] and a series in
\* pm["time_series"]["load"] the key of the record is the key of the series,
\* and every record of pm["load"] has a series under its key
C18_LoadKeysConsistent ==
    Exported =>
        /\ \A row \in Range(psa_net.loads) :
              \A k \in LoadRecordKeys(row) : \A j \in LoadSeriesKeys(row) : k = j
        /\ DOMAIN ret.val.load \subseteq DOMAIN ret.val.time_series.load

\* the key of the record of the charging point in pm["electromobility"]
CpRecordKeys(row) == RecordKeys(ret.val.electromobility, "pd", row.p_set)

\* the key of the flexibility bands of the charging point in
\* pm["time_series"]["electromobility"]
CpSeriesKeys(row) ==
    RecordKeys(ret.val.time_series.electromobility, "p_max",
               psa_net.flex_bands[row.name])

\* C19: for every flexible charging point the key of its record in
\* pm["electromobility"] is the key of its flexibility bands in
\* pm["time_series"]["electromobility"]
C19_CpKeysConsistent ==
    Exported =>
        \A row \in Range(psa_net.loads) :
            row.name \in Range(ret.arg[1]) =>
                /\ CpRecordKeys(row) # {}
                /\ CpRecordKeys(row) = CpSeriesKeys(row)

\* C20: with no flexible charging points (no flexible heat pumps) the export
\* completes and pm["electromobility"] (pm["heatpumps"]) and its time series
\* are present and empty
C20_EmptyCategoryEmitted ==
    ret.op = "to_powermodels" =>
        /\ ret.arg[1] = <<>> =>
              /\ ret.err = "none"
              /\ DOMAIN ret.val.electromobility = {}
              /\ DOMAIN ret.val.time_series.electromobility = {}
        /\ ret.arg[2] = <<>> =>
              /\ ret.err = "none"
              /\ DOMAIN ret.val.heatpumps = {}
              /\ DOMAIN ret.val.time_series.heatpumps = {}

\* the bus pairs of a transformer table
BusPairs(df) == {<<row.bus0, row.bus1>> : row \in Range(df)}

\* the rows of the table between the two buses
Between(df, pair) == {i \in DOMAIN df : df[i].bus0 = pair[1] /\ df[i].bus1 = pair[2]}

\* the last call aggregated the table that the call before it returned
AggregatedAgain ==
    /\ ret.op = "aggregate_parallel_transformers"
    /\ ret'.op = "aggregate_parallel_transformers"
    /\ ret'.arg = ret.val

\* C21: aggregating the output of aggregate_parallel_transformers yields the
\* same set of transformers: same names, bus pairs, r, x and s_nom
C21_AggregationIdempotent ==
    [][AggregatedAgain => Range(ret'.val) = Range(ret'.arg)]_vars

\* C22: after the aggregation every bus pair that had transformers has exactly
\* one, with the parallel-combined r, x and s_nom of all transformers of the
\* pair, and no bus pair loses its transformer, whatever the names are
C22_OnePerBusPair ==
    ret.op = "aggregate_parallel_transformers" =>
        /\ BusPairs(ret.val) = BusPairs(ret.arg)
        /\ \A pair \in BusPairs(ret.arg) :
              /\ Cardinality(Between(ret.val, pair)) = 1
              /\ \A i \in Between(ret.val, pair) :
                    LET trafo == calculate_impedance_for_parallel_components(
                                     groupby(ret.arg, pair[1], pair[2]))
                    IN /\ ret.val[i].r = trafo.r
                       /\ ret.val[i].x = trafo.x
                       /\ ret.val[i].s_nom = trafo.s_nom

\* the records of the branch table with this transformer flag
BranchRecords(flag) ==
    {k \in DOMAIN ret.val.branch : ret.val.branch[k].transformer = flag}

\* C23: the exported branch table holds one record for every line and one
\* for every aggregated transformer of the snapshot; transformer records have
\* transformer = true and their tap ratio, line records transformer = false
\* and tap 1
C23_BranchesOfLinesAndTransformers ==
    Exported =>
        LET transformers == aggregate_parallel_transformers(psa_net.transformers)
        IN /\ Cardinality(BranchRecords(FALSE)) = Len(psa_net.lines)
           /\ \A k \in BranchRecords(FALSE) : ret.val.branch[k].tap = 1
           /\ Cardinality(BranchRecords(TRUE)) = Len(transformers)
           /\ \A i \in DOMAIN transformers :
                 \E k \in BranchRecords(TRUE) :
                     ret.val.branch[k].tap = transformers[i].tap_ratio[1]

\* the code of a control value
BusTypeCode(control) ==
    IF control = "PQ" THEN 1
    ELSE IF control = "PV" THEN 2
    ELSE IF control = "Slack" THEN 3
    ELSE 4

\* the bus of the generator named Generator_slack
SlackBus ==
    (CHOOSE row \in Range(psa_net.generators) :
        row.name = <<"Generator_slack", 0>>).bus

\* C24: in the returned model the bus of the slack generator has bus_type 3
\* whatever its control value, and every other bus has the code of its
\* control value: PQ 1, PV 2, Slack 3, the unknown type ("None") 4
C24_BusTypes ==
    Exported =>
        \A i \in DOMAIN psa_net.buses :
            ret.val.bus[<<i>>].bus_type =
                IF psa_net.buses[i].name = SlackBus THEN 3
                ELSE BusTypeCode(psa_net.buses[i].control)

\* the slack generator is at bus C, whose control value is not Slack, and
\* bus A is a Slack bus by its own control value
C24_Witness ==
    /\ Exported
    /\ SlackBus = "C"
    /\ psa_net.buses[3].control = "None"
    /\ psa_net.buses[1].control = "Slack"
    /\ ret.val.bus[<<3>>].bus_type = 3
    /\ ret.val.bus[<<1>>].bus_type = 3
    /\ ret.val.bus[<<2>>].bus_type = 1

\* the two reports of the voltage check hold the same rows for the same
\* grids; rows of equal v_diff_max stand in the order the sort leaves them
SameRows(a, b) ==
    /\ DOMAIN a = DOMAIN b
    /\ \A g \in DOMAIN a : Range(a[g]) = Range(b[g])

\* the call is the call before it, repeated
SameCall == ret'.op = ret.op /\ ret'.arg = ret.arg

Allowance(level, case) == v_config.max_v_deviation[<<level, case>>]

\* the time steps of a case
StepsOf(case) ==
    {t \in DOMAIN timesteps_load_feedin_case : timesteps_load_feedin_case[t] = case}

\* the returned limits are the fixed ones: 1 p.u. plus the offset, plus the
\* control deviation and the allowance for the upper limit of a feed-in step,
\* minus both for the lower limit of a load step, the other limit as configured
FixedLimits(level) ==
    /\ DOMAIN ret.val.upper = DOMAIN timesteps_load_feedin_case
    /\ DOMAIN ret.val.lower = DOMAIN timesteps_load_feedin_case
    /\ \A t \in StepsOf("feed-in_case") :
          /\ ret.val.upper[t] = PerUnit + v_config.hv_mv_trafo_offset
                                    + v_config.hv_mv_trafo_control_deviation
                                    + Allowance(level, "feed-in_case")
          /\ ret.val.lower[t] = v_config.feedin_case_lower
    /\ \A t \in StepsOf("load_case") :
          /\ ret.val.lower[t] = PerUnit + v_config.hv_mv_trafo_offset
                                    - v_config.hv_mv_trafo_control_deviation
                                    - Allowance(level, "load_case")
          /\ ret.val.upper[t] = v_config.load_case_upper

\* the upper limit of the feed-in steps and the lower limit of the load steps
\* lie symmetric around the voltage
SymmetricAround(centre) ==
    \A t \in StepsOf("feed-in_case") : \A u \in StepsOf("load_case") :
        ret.val.upper[t] - centre = centre - ret.val.lower[u]

CombinedLimitsReturned ==
    /\ ret.op = "mv_allowed_voltage_limits"
    /\ ret.arg = <<"mv_lv">>

BusBar(lv_grid) == IF lv_grid = 1 THEN "D" ELSE "F"

PrimarySide(lv_grid) == IF lv_grid = 1 THEN "C" ELSE "B"

\* C27: in the differentiated LV mode the upper limit of a feed-in step is the
\* reference voltage of that step plus the allowance, the lower limit of a load
\* step the reference voltage of that step minus the allowance; the reference
\* is the bus bar of the station, in the mode 'stations' the primary side of
\* the transformer; the other limit of the step is the configured value
C27_LvLimitsFollowReference ==
    ret.op = "lv_allowed_voltage_limits" =>
        LET stations == ret.arg[2] = "stations"
            reference == IF stations THEN PrimarySide(ret.arg[1]) ELSE BusBar(ret.arg[1])
            level == IF stations THEN "mv_lv_station" ELSE "lv"
        IN /\ DOMAIN ret.val.upper = DOMAIN v_res
           /\ DOMAIN ret.val.lower = DOMAIN v_res
           /\ \A t \in StepsOf("feed-in_case") :
                 /\ ret.val.upper[t] = v_res[t][reference] + Allowance(level, "feed-in_case")
                 /\ ret.val.lower[t] = v_config.feedin_case_lower
           /\ \A t \in StepsOf("load_case") :
                 /\ ret.val.lower[t] = v_res[t][reference] - Allowance(level, "load_case")
                 /\ ret.val.upper[t] = v_config.load_case_upper

\* the limits of the stations' mode where the two sides of the transformer and
\* the two time steps differ in voltage, one step of each case
C27_Witness ==
    /\ ret.op = "lv_allowed_voltage_limits"
    /\ ret.arg = <<1, "stations">>
    /\ timesteps_load_feedin_case = <<"feed-in_case", "load_case">> \o
           [t \in 1..(NT - 2) |-> "load_case"]
    /\ v_res[1]["C"] # v_res[1]["D"]
    /\ v_res[2]["C"] # v_res[2]["D"]
    /\ v_res[1]["C"] # v_res[2]["C"]
    /\ ret.val.upper[1] = v_res[1]["C"] + 15
    /\ ret.val.lower[2] = v_res[2]["C"] - 20

DifferentiatedLimitsReturned ==
    /\ ret.op = "mv_allowed_voltage_limits"
    /\ ret.arg = <<"mv">>

\* C28 as stated: in the mode 'mv' the bounds of a time step are the voltage
\* measured in that step at a reference bus plus, respectively minus, the
\* allowance of the case
C28_MvLimitsFollowReference ==
    DifferentiatedLimitsReturned =>
        \E reference \in Buses :
            /\ \A t \in StepsOf("feed-in_case") :
                  ret.val.upper[t] = v_res[t][reference] + Allowance("mv", "feed-in_case")
            /\ \A t \in StepsOf("load_case") :
                  ret.val.lower[t] = v_res[t][reference] - Allowance("mv", "load_case")

\* C28: in the mode 'mv' the bounds are computed from the fixed 1 p.u. plus
\* the configured offset, plus (minus) the control deviation and the allowance
\* of the case; they do not follow a measured voltage
C28_MvLimitsFixed == DifferentiatedLimitsReturned => FixedLimits("mv")

\* limits of the mode 'mv' while the voltage at the station of the MV grid is
\* above 1.1 p.u. in every time step
C28_Witness ==
    /\ DifferentiatedLimitsReturned
    /\ StepsOf("feed-in_case") # {}
    /\ StepsOf("load_case") # {}
    /\ \A t \in DOMAIN v_res : v_res[t]["A"] > 1100
    /\ \A t \in StepsOf("feed-in_case") : ret.val.upper[t] < 1100

\* the rows of the two tables voltage_diff returned
DiffRows == Range(ret.val.uv) \cup Range(ret.val.ov)

\* C29 as stated: the tables hold a non-negative magnitude where the limit is
\* violated and no value where it is not: no entry is negative
C29_NoNegativeEntry ==
    ret.op = "voltage_diff" =>
        \A row \in DiffRows : \A t \in DOMAIN row.diff : row.diff[t] >= 0

\* C29: the tables hold for each listed bus and every time step the signed
\* difference to the limit (voltage minus upper limit, lower limit minus
\* voltage), positive exactly where the limit is violated; every listed bus
\* has a positive entry
C29_SignedDeviations ==
    ret.op = "voltage_diff" =>
        /\ \A row \in Range(ret.val.ov) :
              /\ DOMAIN row.diff = DOMAIN v_res
              /\ \A t \in DOMAIN v_res :
                    /\ row.diff[t] = v_res[t][row.bus] - ret.arg.v_dev_allowed_upper[t]
                    /\ row.diff[t] > 0 <=> v_res[t][row.bus] > ret.arg.v_dev_allowed_upper[t]
              /\ \E t \in DOMAIN v_res : row.diff[t] > 0
        /\ \A row \in Range(ret.val.uv) :
              /\ DOMAIN row.diff = DOMAIN v_res
              /\ \A t \in DOMAIN v_res :
                    /\ row.diff[t] = ret.arg.v_dev_allowed_lower[t] - v_res[t][row.bus]
                    /\ row.diff[t] > 0 <=> v_res[t][row.bus] < ret.arg.v_dev_allowed_lower[t]
              /\ \E t \in DOMAIN v_res : row.diff[t] > 0

\* a bus listed for overvoltage with a negative entry at a step without violation
C29_Witness ==
    /\ ret.op = "voltage_diff"
    /\ \E row \in Range(ret.val.ov) :
          /\ \E t \in DOMAIN row.diff : row.diff[t] > 0
          /\ \E t \in DOMAIN row.diff : row.diff[t] < 0
    /\ \E row \in Range(ret.val.uv) : \E t \in DOMAIN row.diff : row.diff[t] < 0

\* C30: for every non-empty set of flexible heat pumps the export completes,
\* pm["heatpumps"] holds one record per flexible heat pump under the keys
\* "1" .. "N", and no flexible heat pump or charging point has a record in
\* pm["load"]
C30_HeatPumpsExported ==
    (ret.op = "to_powermodels" /\ ret.arg[2] # <<>>) =>
        /\ ret.err = "none"
        /\ Dense(ret.val.heatpumps, Len(ret.arg[2]))
        /\ \A row \in Range(psa_net.loads) :
              row.name \in Range(ret.arg[1]) \cup Range(ret.arg[2])
                  => RecordKeys(ret.val.load, "pd", row.p_set) = {}

====
